---- MODULE Spec2Model ----
(***************************************************************************)
(* Model of mcp-server-manager: the create-server, build-server and        *)
(* install-server tool handlers, the project directories they inspect and  *)
(* the Claude Desktop JSON config file that install-server rewrites.       *)
(*                                                                         *)
(* Strings are sequences of chunks ("x-y" is <<"x","-","y">>), so that     *)
(* endsWith and replace(/-/g,"_") are computed; a path is a sequence of    *)
(* such components.  A handler is a sequence of steps, one per await: the  *)
(* synchronous code that follows an await belongs to the step that         *)
(* completes it.                                                           *)
(***************************************************************************)
EXTENDS Naturals, Sequences, FiniteSets, TLC

VARIABLES proj, cfgFile, cfgDir, call, prev, ncalls, faulty

vars == <<proj, cfgFile, cfgDir, call, prev, ncalls, faulty>>

(* ------------------------------ bounds --------------------------------- *)

\* number of tool calls started in one behaviour
MaxCalls == 2

\* the handlers that may be in flight together
Procs == {1, 2}

\* the handler slot used when calls do not overlap
SeqProcs == {1}

(* --------------------------- strings and paths ------------------------- *)

Str(s) == << <<s>> >>

EndsWith(name, suffix) ==
    /\ Len(name) >= Len(suffix)
    /\ SubSeq(name, Len(name) - Len(suffix) + 1, Len(name)) = suffix

\* the name used as it is
KeepDash(name) == name

\* serverName.replace(/-/g, "_")
ReplaceDash(name) == [i \in 1..Len(name) |-> IF name[i] = "-" THEN "_" ELSE name[i]]

Join(p, q) == p \o q

\* a name made of the last two components of a path
ParentAndBasename(p) == p[Len(p) - 1] \o p[Len(p)]

Basename(p) == p[Len(p)]

Dirname(p) == SubSeq(p, 1, Len(p) - 1)

HomeDir == << <<"home">>, <<"u">> >>

Cwd == << <<"work">> >>

IsWindows == FALSE

AppData == << <<"appdata">> >>

\* an input path: "~" followed by rest, an absolute path, or a relative one
InPath(kind, comps) == [kind |-> kind, comps |-> comps]

\* path.join and path.resolve normalize their result: "." segments are
\* dropped and ".." removes the segment before it (none at the root)
RECURSIVE Normalize(_, _)
Normalize(done, rest) ==
    IF rest = <<>> THEN done
    ELSE IF Head(rest) = <<".">> THEN Normalize(done, Tail(rest))
    ELSE IF Head(rest) = <<"..">>
         THEN Normalize(IF done = <<>> THEN done ELSE SubSeq(done, 1, Len(done) - 1),
                        Tail(rest))
    ELSE Normalize(Append(done, Head(rest)), Tail(rest))

\* path.resolve(inputPath), as src/index.ts resolves its directories: a
\* leading "~" is a directory name like any other, under the working directory
pathResolve(inputPath) ==
    IF inputPath.kind = "tilde" THEN Normalize(<<>>, Join(Cwd, << <<"~">> >> \o inputPath.comps))
    ELSE IF inputPath.kind = "abs" THEN Normalize(<<>>, inputPath.comps)
    ELSE Normalize(<<>>, Join(Cwd, inputPath.comps))

\* a resolvePath without its branch on the leading "~"
resolveWithoutHome(inputPath) ==
    IF inputPath.kind = "tilde" THEN Normalize(<<>>, Join(Cwd, << <<"~">> >> \o inputPath.comps))
    ELSE IF inputPath.kind = "abs" THEN Normalize(<<>>, inputPath.comps)
    ELSE Normalize(<<>>, Join(Cwd, inputPath.comps))

\* startsWith('~') ? path.join(os.homedir(), inputPath.slice(1))
\*                 : path.resolve(inputPath)
resolvePath(inputPath) ==
    IF inputPath.kind = "tilde" THEN Normalize(<<>>, Join(HomeDir, inputPath.comps))
    ELSE IF inputPath.kind = "abs" THEN Normalize(<<>>, inputPath.comps)
    ELSE Normalize(<<>>, Join(Cwd, inputPath.comps))

getDefaultClaudeConfigPath ==
    IF IsWindows
    THEN Join(AppData, << <<"Claude">>, <<"claude_desktop_config", ".json">> >>)
    ELSE Join(HomeDir, << <<"Library">>, <<"Application Support">>, <<"Claude">>,
                          <<"claude_desktop_config", ".json">> >>)

(* names of directory entries *)
PackageJson == <<"package", ".json">>
ServerPy == <<"server", ".py">>
MainPy == <<"main", ".py">>
RequirementsTxt == <<"requirements", ".txt">>
PyprojectToml == <<"pyproject", ".toml">>
PomXml == <<"pom", ".xml">>
BuildGradle == <<"build", ".gradle">>
TargetDir == <<"target">>
BuildDir == <<"build">>
LibsDir == <<"libs">>
VenvDir == <<".venv">>
TsConfigJson == <<"tsconfig", ".json">>
SrcDir == <<"src">>
ReadmeMd == <<"README", ".md">>
NodeModules == <<"node_modules">>

PlainJar == <<"app", ".jar">>
FatJar == <<"app", "-jar-with-dependencies", ".jar">>
LibFatJar == <<"lib", "-jar-with-dependencies", ".jar">>
ClassesDir == <<"classes">>

\* the names an output directory may hold, in the order of their bytes:
\* app-jar-with-dependencies.jar, app.jar, classes,
\* lib-jar-with-dependencies.jar ("-" comes before ".")
NameOrder == <<FatJar, PlainJar, ClassesDir, LibFatJar>>

\* fs.readdir(dir): the names of the entries, which come sorted by their
\* bytes
Readdir(names) ==
    LET Listed(n) == n \in names
    IN  SelectSeq(NameOrder, Listed)

(* server names: the basenames of the project directories *)
NameA == <<"a">>
NameXY == <<"x", "-", "y">>
NameZ == <<"z">>

(* ------------------------- project directories ------------------------- *)

\* A directory: its top-level entries, whether build/libs exists, the
\* listings (in readdir order) of target/ and build/libs/, whether its
\* package.json is open for writing and still empty, and which of target
\* and build/libs are regular files, not directories.
Dir(files, hasLibs, target, libs) ==
    [exists |-> TRUE, files |-> files, hasLibs |-> hasLibs, target |-> target, libs |-> libs,
     emptyPkg |-> FALSE, notDirs |-> {}]

NoDir ==
    [exists |-> FALSE, files |-> {}, hasLibs |-> FALSE, target |-> <<>>, libs |-> <<>>,
     emptyPkg |-> FALSE, notDirs |-> {}]

EmptyDir == Dir({}, FALSE, <<>>, <<>>)

PathA == Join(Cwd, <<NameA>>)
PathHomeA == Join(HomeDir, <<NameA>>)
PathXY == Join(Cwd, <<NameXY>>)

ProjPaths == {PathA, PathHomeA, PathXY}

\* the inputs a caller may give for a directory
DirInputs == {InPath("rel", <<NameA>>), InPath("tilde", <<NameA>>), InPath("rel", <<NameXY>>)}

\* the parent directories create-server is called with
ParentInputs == {InPath("rel", <<>>), InPath("tilde", <<>>)}

(* ------------------------------ JSON ----------------------------------- *)

\* the value under the mcpServers key: missing, a falsy value (null, false, 0,
\* ""), a truthy primitive, an array, or an object; m is the set of
\* <<name, entry>> pairs of its properties
Servers(t, m) == [t |-> t, m |-> m]

NoServers == Servers("missing", {})

\* a JSON / JavaScript value at the top level of the document: null, a
\* primitive, an array, or an object with an mcpServers value; other is the
\* set of <<key, value>> pairs of its other top-level keys
JsVal(t, servers, other) == [t |-> t, servers |-> servers, other |-> other]

NullVal == JsVal("null", NoServers, {})
PrimVal == JsVal("prim", NoServers, {})
ArrVal == JsVal("arr", NoServers, {})

\* let config: any = { mcpServers: {} }
DefaultConfig == JsVal("obj", Servers("map", {}), {})

\* the content of a file: absent, empty, not JSON, or the text of a JSON
\* value in some layout
Text(k, fmt, val) == [k |-> k, fmt |-> fmt, val |-> val]

Absent == Text("absent", "none", NullVal)
EmptyText == Text("empty", "none", NullVal)
Garbage == Text("garbage", "none", NullVal)

\* JSON.parse(content)
JsonParse(text) ==
    IF text.k = "json" THEN [ok |-> TRUE, val |-> text.val]
    ELSE [ok |-> FALSE, val |-> NullVal]

\* what JSON.stringify keeps of a value: properties set on an array are not
\* serialized
Serializable(v) ==
    IF v.t = "arr" THEN ArrVal
    ELSE IF v.t = "obj" /\ v.servers.t = "arr"
         THEN JsVal("obj", Servers("arr", {}), v.other)
         ELSE v

\* JSON.stringify(data, null, 2)
JsonStringify(data) == Text("json", "indent2", Serializable(data))

\* a launch entry under mcpServers
Entry(command, args, extra) == [command |-> command, args |-> args, extra |-> extra]

(* The length of the text JSON.stringify(data, null, 2) produces, counted as
   JSON.stringify lays it out: a property per line, indented by two spaces
   per level, "," and a newline between properties.  An entry with extra
   "env" carries an empty env object. *)

RECURSIVE Chars(_)
\* the characters of a name given as chunks
Chars(name) == IF name = <<>> THEN 0 ELSE Len(Head(name)) + Chars(Tail(name))

RECURSIVE PathChars(_)
\* "/" and the characters of every component
PathChars(path) == IF path = <<>> THEN 0 ELSE 1 + Chars(Head(path)) + PathChars(Tail(path))

\* an argument is a word, or an absolute path of several components
ArgChars(arg) == IF Len(arg) = 1 THEN Chars(arg[1]) ELSE PathChars(arg)

RECURSIVE ArgLines(_)
\* the lines of the args array without their separators: eight spaces and
\* the quoted argument
ArgLines(args) ==
    IF args = <<>> THEN 0 ELSE 8 + ArgChars(Head(args)) + 2 + ArgLines(Tail(args))

\* [ <newline> the lines, ",<newline>" between them <newline> six spaces ]
ArgsLength(args) ==
    IF args = <<>> THEN 2 ELSE 2 + ArgLines(args) + 2 * (Len(args) - 1) + 1 + 7

\* { "command": "..", "args": [..] (, "env": {}) } at the third level
EntryLength(entry) ==
    2 + (6 + 9 + 2 + Len(entry.command) + 2) + 2 + (6 + 6 + 2 + ArgsLength(entry.args))
      + (IF entry.extra = "env" THEN 2 + (6 + 5 + 2 + 2) ELSE 0) + 1 + 5

RECURSIVE EntryLines(_)
\* the properties of mcpServers without their separators: four spaces, the
\* quoted name, ": " and the entry
EntryLines(m) ==
    IF m = {} THEN 0
    ELSE LET kv == CHOOSE e \in m : TRUE
         IN  4 + Chars(kv[1]) + 2 + 2 + EntryLength(kv[2]) + EntryLines(m \ {kv})

\* the value of mcpServers: an array is written as [], its properties lost
ServersLength(servers) ==
    IF servers.t = "arr" \/ servers.m = {} THEN 2
    ELSE 2 + EntryLines(servers.m) + 2 * (Cardinality(servers.m) - 1) + 1 + 3

RECURSIVE OtherLines(_)
\* the other top-level properties, whose values are one-digit numbers
OtherLines(other) ==
    IF other = {} THEN 0
    ELSE LET kv == CHOOSE e \in other : TRUE
         IN  2 + Len(kv[1]) + 2 + 2 + 1 + OtherLines(other \ {kv})

\* the length of the text of a document install-server writes: [] for an
\* array, else an object with mcpServers and the other keys
TextLength(text) ==
    IF text.val.t = "arr" THEN 2
    ELSE 2 + (2 + 12 + 2 + ServersLength(text.val.servers)) + OtherLines(text.val.other)
           + 2 * Cardinality(text.val.other) + 2

\* fs.writeFile(path, text) after its open: the bytes of text are written
\* from offset 0 and the file is not truncated again, so that what another
\* writer put there since the open stays beyond them.  A shorter document
\* over a longer one leaves the end of the longer one behind it, which is
\* not JSON.  (With two writers the text found is empty or a document one
\* of them wrote.)
Overwrite(current, text) ==
    IF current.k \in {"absent", "empty"} \/ current = text THEN text
    ELSE IF current.k = "json" /\ current.fmt = "indent2"
            /\ TextLength(current) <= TextLength(text)
         THEN text
    ELSE Garbage

(* --------------------- install-server: pure parts ---------------------- *)

\* determineServerType with the python rule tested before the package.json
\* rule
DetectPythonFirst(files) ==
    IF \/ ServerPy \in files
       \/ \E f \in files : EndsWith(f, <<".py">>)
       \/ RequirementsTxt \in files
       \/ PyprojectToml \in files
    THEN "python"
    ELSE IF PackageJson \in files THEN "nodejs"
    ELSE IF PomXml \in files \/ BuildGradle \in files THEN "java"
    ELSE "probe"

\* The rules of determineServerType that need only the readdir listing;
\* "probe" when the two fileExists calls of the java rule must be awaited.
DetectFromListing(files) ==
    IF PackageJson \in files THEN "nodejs"
    ELSE IF \/ ServerPy \in files
            \/ \E f \in files : EndsWith(f, <<".py">>)
            \/ RequirementsTxt \in files
            \/ PyprojectToml \in files
         THEN "python"
    ELSE IF PomXml \in files \/ BuildGradle \in files THEN "java"
    ELSE "probe"

\* determineServerType as a whole, on a directory: the listing rules, then
\* the two fileExists probes; "none" where it throws
InstallKind(d) ==
    LET kind == DetectFromListing(d.files)
    IN  IF kind # "probe" THEN kind
        ELSE IF TargetDir \in d.files \/ d.hasLibs THEN "java"
        ELSE "none"

\* files.find(pred): the first element of the listing that ends with suffix
FindSuffix(listing, suffix) ==
    LET hits == {i \in 1..Len(listing) : EndsWith(listing[i], suffix)}
    IN  IF hits = {} THEN [found |-> FALSE, file |-> <<>>]
        ELSE [found |-> TRUE,
              file |-> listing[CHOOSE i \in hits : \A j \in hits : i <= j]]

\* the archive assumed, as the node artifact is, when the listing has none
FindMavenJarAssumed(listing) ==
    LET fat == FindSuffix(listing, <<"-jar-with-dependencies", ".jar">>)
        any == FindSuffix(listing, <<".jar">>)
    IN  IF fat.found THEN fat
        ELSE IF any.found THEN any
        ELSE [found |-> TRUE, file |-> PlainJar]

\* files.find(-jar-with-dependencies.jar) || files.find(.jar)
FindMavenJar(listing) ==
    LET fat == FindSuffix(listing, <<"-jar-with-dependencies", ".jar">>)
    IN  IF fat.found THEN fat ELSE FindSuffix(listing, <<".jar">>)

\* files.find(.jar)
FindGradleJar(listing) == FindSuffix(listing, <<".jar">>)

NodeEntry(serverDir) ==
    Entry("node", << Join(serverDir, <<BuildDir, <<"index", ".js">> >>) >>, "none")

UvEntry(serverDir) ==
    Entry("uv", << Str("--directory"), serverDir, Str("run"), <<ServerPy>> >>, "none")

\* the entry of the catch branch: python <dir>/server.py
PythonFallbackEntry(serverDir) ==
    Entry("python", << Join(serverDir, <<ServerPy>>) >>, "none")

ModuleEntry(serverName) ==
    Entry("python", << Str("-m"), <<ReplaceDash(serverName)>> >>, "none")

MavenEntry(serverDir, jarFile) ==
    Entry("java", << Str("-jar"), Join(serverDir, <<TargetDir, jarFile>>) >>, "none")

GradleEntry(serverDir, jarFile) ==
    Entry("java", << Str("-jar"), Join(serverDir, <<BuildDir, LibsDir, jarFile>>) >>, "none")

\* if (!config.mcpServers) config.mcpServers = {}: reading a property of
\* null throws, and so does creating one on a primitive; the inner catch
\* then leaves config as it was read
EnsureServers(config) ==
    IF config.t \in {"null", "prim"} THEN config
    ELSE IF config.servers.t \in {"missing", "falsy"}
         THEN JsVal(config.t, Servers("map", {}), config.other)
         ELSE config

\* the assignment guarded by "if the name is not there yet"
SetEntryIfAbsent(config, serverName, entry) ==
    IF config.t \in {"obj", "arr"} /\ config.servers.t \in {"map", "arr"}
    THEN [ok |-> TRUE,
          val |-> JsVal(config.t,
                        Servers(config.servers.t,
                                IF serverName \in {kv[1] : kv \in config.servers.m}
                                THEN config.servers.m
                                ELSE config.servers.m \cup {<<serverName, entry>>}),
                        config.other)]
    ELSE [ok |-> FALSE, val |-> config]

\* the new args appended to those of an entry already under the name
\* instead of replacing them
SetEntryAppendArgs(config, serverName, entry) ==
    IF config.t \in {"obj", "arr"} /\ config.servers.t \in {"map", "arr"}
    THEN [ok |-> TRUE,
          val |-> JsVal(config.t,
                        Servers(config.servers.t,
                                {kv \in config.servers.m : kv[1] # serverName}
                                    \cup {<<serverName,
                                            [entry EXCEPT !.args = old[2].args \o entry.args]>> :
                                          old \in {kv \in config.servers.m : kv[1] = serverName}}
                                    \cup (IF \E kv \in config.servers.m : kv[1] = serverName
                                          THEN {} ELSE {<<serverName, entry>>})),
                        config.other)]
    ELSE [ok |-> FALSE, val |-> config]

\* config.mcpServers[serverName] = entry: a TypeError when config or its
\* mcpServers is not an object (the module runs in strict mode)
SetEntry(config, serverName, entry) ==
    IF config.t \in {"obj", "arr"} /\ config.servers.t \in {"map", "arr"}
    THEN [ok |-> TRUE,
          val |-> JsVal(config.t,
                        Servers(config.servers.t,
                                {kv \in config.servers.m : kv[1] # serverName}
                                    \cup {<<serverName, entry>>}),
                        config.other)]
    ELSE [ok |-> FALSE, val |-> config]

\* the existing file is never read: every install starts from the default
LoadConfigIgnoresFile(text) == DefaultConfig

\* readJsonFile followed by the mcpServers check: a read or parse failure is
\* caught by the inner try of updateClaudeConfig, which keeps the default
LoadConfig(text) ==
    LET parsed == JsonParse(text)
    IN  IF parsed.ok THEN EnsureServers(parsed.val) ELSE DefaultConfig

(* ------------------------------ state ---------------------------------- *)

\* configPath is optional
NoCfgInput == [given |-> FALSE, path |-> InPath("rel", <<>>)]
OverrideInput == [given |-> TRUE, path |-> InPath("tilde", << <<"cfg">>, <<"mcp", ".json">> >>)]
CfgInputs == {NoCfgInput, OverrideInput}

\* configPath ? resolvePath(configPath) : getDefaultClaudeConfigPath(): the
\* empty string, which the schema admits, is falsy
claudeConfigPath(configPath) ==
    IF configPath.given /\ configPath.path.kind # "empty"
    THEN resolvePath(configPath.path) ELSE getDefaultClaudeConfigPath

CfgPaths == {claudeConfigPath(c) : c \in CfgInputs}

Languages == {"typescript", "python", "java"}

\* A handler slot.  op, pc and the handler's locals; result is what the
\* handler returned.  no, started, found, input, overlapped, entry, cmds and outs
\* record, for the properties, the number of the call, the config files and
\* the target directory as the call found them, the paths install-server was
\* given, whether another call was in flight with it, the launch entry it
\* built, the commands it ran, and the steps at which an awaited
\* file-system call other than fs.access was rejected.
IdleCall ==
    [op |-> "none", pc |-> "idle", dir |-> <<>>, cfgp |-> <<>>, name |-> <<>>,
     lang |-> "none", pip |-> "none", stype |-> "none", hasTarget |-> FALSE, hasReq |-> FALSE,
     config |-> DefaultConfig, result |-> "none", err |-> "none",
     no |-> 0, started |-> [f \in CfgPaths |-> Absent], found |-> NoDir,
     input |-> [dir |-> InPath("rel", <<>>), cfg |-> NoCfgInput], overlapped |-> FALSE, entry |-> Entry("none", <<>>, "none"),
     cmds |-> <<>>, outs |-> <<>>, rejected |-> {}]

InFlight(c) == c.pc \notin {"idle", "done"}

\* the slots after slot p starts call c: calls in flight together are marked
Begin(p, c) ==
    LET busy == \E q \in Procs \ {p} : InFlight(call[q])
    IN  [q \in Procs |->
            IF q = p THEN [c EXCEPT !.overlapped = busy]
            ELSE IF InFlight(call[q]) THEN [call[q] EXCEPT !.overlapped = TRUE]
            ELSE call[q]]

\* the awaited file-system call of the step call c is at has rejected
Rejected(c) == [c EXCEPT !.rejected = @ \cup {c.pc}]

\* return { isError: true, ... }
Failed(c, kind) == [c EXCEPT !.pc = "done", !.result = "err", !.err = kind]

\* return { content: [...] }
Succeeded(c) == [c EXCEPT !.pc = "done", !.result = "ok"]

fileExists(path) == path \in ProjPaths /\ proj[path].exists

\* await fs.readFile(path) inside a try whose catch ignores the error: on a
\* file system that fails, the read of a file that is there may reject, and
\* the code goes on as it does for a missing file
Reads(text) == IF faulty THEN {text, Absent} ELSE {text}

\* fs.readdir of target/ (place TargetDir) or build/libs/ (place LibsDir) of
\* directory d resolves: the place is there by now, and is a directory.
\* Otherwise it rejects, with ENOENT or ENOTDIR
Listable(d, place) ==
    /\ IF place = TargetDir THEN TargetDir \in d.files ELSE d.hasLibs
    /\ place \notin d.notDirs

\* fileExists: try { await fs.access(p); return true } catch { return false }.
\* What is not there is never found; on a file system that fails, access
\* may reject for what is there, and the answer is false all the same
Access(there) == IF faulty /\ there THEN {TRUE, FALSE} ELSE {there}

\* the content of the file at a path, and whether its parent directory
\* exists: nothing is there outside the config locations
FileAt(path) == IF path \in CfgPaths THEN cfgFile[path] ELSE Absent
DirAt(path) == path \in CfgPaths /\ cfgDir[path]

(* ----------------------- install-server: handler ----------------------- *)

\* the handler is called: resolvePath(directory), then await fileExists
StartInstallWith(p, directories, configPaths) ==
    /\ call[p].pc = "idle"
    /\ \E directory \in directories, configPath \in configPaths :
          call' = Begin(p, [IdleCall EXCEPT
                               !.op = "install", !.pc = "i_access",
                               !.dir = resolvePath(directory),
                               !.cfgp = claudeConfigPath(configPath),
                               !.input = [dir |-> directory, cfg |-> configPath],
                               !.no = ncalls + 1, !.started = cfgFile])
    /\ ncalls' = ncalls + 1
    /\ UNCHANGED <<faulty, proj, cfgFile, cfgDir, prev>>

StartInstall(p) == StartInstallWith(p, DirInputs, CfgInputs)

\* if (!(await fileExists(fullPath))) return the error
InstallAccess(p) ==
    /\ call[p].pc = "i_access"
    /\ \E found \in Access(fileExists(call[p].dir)) :
          call' = [call EXCEPT ![p] =
                     IF found
                     THEN [call[p] EXCEPT !.pc = "i_readdir"]
                     ELSE Failed(call[p], "DirectoryNotFound")]
    /\ UNCHANGED <<faulty, proj, cfgFile, cfgDir, prev, ncalls>>

\* the synchronous code after determineServerType returns: basename, the
\* config path, and updateClaudeConfig up to its first await
EnterUpdate(c, serverType) ==
    [c EXCEPT !.stype = serverType, !.name = Basename(c.dir),
              !.config = DefaultConfig, !.pc = "u_access"]

\* determineServerType: const files = await fs.readdir(directory)
InstallReaddir(p) ==
    /\ call[p].pc = "i_readdir"
    /\ LET kind == DetectFromListing(proj[call[p].dir].files)
       IN  call' = [call EXCEPT ![p] =
                      IF kind = "probe" THEN [call[p] EXCEPT !.pc = "i_probeTarget"]
                      ELSE EnterUpdate(call[p], kind)]
    /\ UNCHANGED <<faulty, proj, cfgFile, cfgDir, prev, ncalls>>

\* determineServerType: await fileExists(path.join(directory, "target"))
InstallProbeTarget(p) ==
    /\ call[p].pc = "i_probeTarget"
    /\ \E found \in Access(TargetDir \in proj[call[p].dir].files) :
          call' = [call EXCEPT ![p] =
                     IF found
                     THEN EnterUpdate(call[p], "java")
                     ELSE [call[p] EXCEPT !.pc = "i_probeLibs"]]
    /\ UNCHANGED <<faulty, proj, cfgFile, cfgDir, prev, ncalls>>

\* determineServerType: await fileExists(path.join(directory, "build", "libs"))
InstallProbeLibs(p) ==
    /\ call[p].pc = "i_probeLibs"
    /\ \E found \in Access(proj[call[p].dir].hasLibs) :
          call' = [call EXCEPT ![p] =
                     IF found
                     THEN EnterUpdate(call[p], "java")
                     ELSE Failed(call[p], "UnrecognizedProjectKind")]
    /\ UNCHANGED <<faulty, proj, cfgFile, cfgDir, prev, ncalls>>

\* updateClaudeConfig: if (await fileExists(configPath))
UpdateAccess(p) ==
    /\ call[p].pc = "u_access"
    /\ \E found \in Access(cfgFile[call[p].cfgp].k # "absent") :
          call' = [call EXCEPT ![p].pc =
                     IF found THEN "u_read" ELSE "u_mkdir"]
    /\ UNCHANGED <<faulty, proj, cfgFile, cfgDir, prev, ncalls>>

\* the entry is built but never assigned under mcpServers
RegisterWithoutEntry(c, entry) == [c EXCEPT !.entry = entry, !.pc = "w_mkdir"]

\* config.mcpServers[serverName] = entry, then writeJsonFile up to its
\* first await; a TypeError is rethrown and reported by the handler
Register(c, entry) ==
    LET set == SetEntry(c.config, c.name, entry)
    IN  IF set.ok THEN [c EXCEPT !.config = set.val, !.entry = entry, !.pc = "w_mkdir"]
        ELSE Failed(c, "TypeError")

\* try { config.mcpServers[serverName] = uv entry } catch { ... = python
\* entry }: the assignment of the catch branch throws as the first one did
RegisterUv(c) ==
    LET set == SetEntry(c.config, c.name, UvEntry(c.dir))
    IN  IF set.ok
        THEN [c EXCEPT !.config = set.val, !.entry = UvEntry(c.dir), !.pc = "w_mkdir"]
        ELSE Register(c, PythonFallbackEntry(c.dir))

\* a node branch that looks for the build directory before registering
ConfigureVerifiesBuild(c) ==
    IF c.stype = "nodejs"
    THEN IF BuildDir \in proj[c.dir].files THEN Register(c, NodeEntry(c.dir))
         ELSE Failed(c, "ArtifactNotFound")
    ELSE IF c.stype = "python" THEN [c EXCEPT !.pc = "l_serverPy"]
    ELSE [c EXCEPT !.pc = "l_target"]

\* the code of updateClaudeConfig after the inner try, up to the next await
Configure(c) ==
    IF c.stype = "nodejs" THEN Register(c, NodeEntry(c.dir))
    ELSE IF c.stype = "python" THEN [c EXCEPT !.pc = "l_serverPy"]
    ELSE [c EXCEPT !.pc = "l_target"]

\* config = await readJsonFile(configPath), and the mcpServers check
UpdateRead(p) ==
    /\ call[p].pc = "u_read"
    /\ call' = [call EXCEPT ![p] =
                  Configure([call[p] EXCEPT !.config = LoadConfig(cfgFile[call[p].cfgp])])]
    /\ UNCHANGED <<faulty, proj, cfgFile, cfgDir, prev, ncalls>>

\* await fs.mkdir(path.dirname(configPath), { recursive: true })
UpdateMkdir(p) ==
    /\ call[p].pc = "u_mkdir"
    /\ cfgDir' = [cfgDir EXCEPT ![call[p].cfgp] = TRUE]
    /\ call' = [call EXCEPT ![p] = Configure(call[p])]
    /\ UNCHANGED <<faulty, proj, cfgFile, prev, ncalls>>

\* const hasPyFile = await fileExists(path.join(serverDir, "server.py"))
LocateServerPy(p) ==
    /\ call[p].pc = "l_serverPy"
    /\ \E found \in Access(ServerPy \in proj[call[p].dir].files) :
          call' = [call EXCEPT ![p] =
                     IF found
                     THEN RegisterUv(call[p])
                     ELSE Register(call[p], ModuleEntry(call[p].name))]
    /\ UNCHANGED <<faulty, proj, cfgFile, cfgDir, prev, ncalls>>

\* const hasMavenTarget = await fileExists(path.join(serverDir, "target"))
LocateTarget(p) ==
    /\ call[p].pc = "l_target"
    /\ \E found \in Access(TargetDir \in proj[call[p].dir].files) :
          call' = [call EXCEPT ![p].hasTarget = found,
                               ![p].pc = "l_libs"]
    /\ UNCHANGED <<faulty, proj, cfgFile, cfgDir, prev, ncalls>>

\* the two branches in the other order: build/libs is scanned when it exists
LocateLibsFirst(p) ==
    /\ call[p].pc = "l_libs"
    /\ call' = [call EXCEPT ![p] =
                  IF proj[call[p].dir].hasLibs THEN [call[p] EXCEPT !.pc = "l_scanLibs"]
                  ELSE IF call[p].hasTarget THEN [call[p] EXCEPT !.pc = "l_scanTarget"]
                  ELSE Failed(call[p], "ArtifactNotFound")]
    /\ UNCHANGED <<faulty, proj, cfgFile, cfgDir, prev, ncalls>>

\* const hasGradleBuild = await fileExists(path.join(serverDir, "build", "libs"))
LocateLibs(p) ==
    /\ call[p].pc = "l_libs"
    /\ \E found \in Access(proj[call[p].dir].hasLibs) :
          call' = [call EXCEPT ![p] =
                     IF call[p].hasTarget THEN [call[p] EXCEPT !.pc = "l_scanTarget"]
                     ELSE IF found THEN [call[p] EXCEPT !.pc = "l_scanLibs"]
                     ELSE Failed(call[p], "ArtifactNotFound")]
    /\ UNCHANGED <<faulty, proj, cfgFile, cfgDir, prev, ncalls>>

\* const files = await fs.readdir(path.join(serverDir, "target")): the
\* rejection, when target is gone or is no directory, reaches the catch
ScanTarget(p) ==
    /\ call[p].pc = "l_scanTarget"
    /\ LET jar == FindMavenJar(proj[call[p].dir].target)
       IN  call' = [call EXCEPT ![p] =
                      IF ~Listable(proj[call[p].dir], TargetDir) THEN Failed(call[p], "IoError")
                      ELSE IF jar.found THEN Register(call[p], MavenEntry(call[p].dir, jar.file))
                      ELSE Failed(call[p], "ArtifactNotFound")]
    /\ UNCHANGED <<faulty, proj, cfgFile, cfgDir, prev, ncalls>>

\* const files = await fs.readdir(path.join(serverDir, "build", "libs")):
\* the rejection, when build/libs is no directory, reaches the catch
ScanLibs(p) ==
    /\ call[p].pc = "l_scanLibs"
    /\ LET jar == FindGradleJar(proj[call[p].dir].libs)
       IN  call' = [call EXCEPT ![p] =
                      IF ~Listable(proj[call[p].dir], LibsDir) THEN Failed(call[p], "IoError")
                      ELSE IF jar.found THEN Register(call[p], GradleEntry(call[p].dir, jar.file))
                      ELSE Failed(call[p], "ArtifactNotFound")]
    /\ UNCHANGED <<faulty, proj, cfgFile, cfgDir, prev, ncalls>>

\* writeJsonFile: await fs.mkdir(dirPath, { recursive: true })
WriteMkdir(p) ==
    /\ call[p].pc = "w_mkdir"
    /\ cfgDir' = [cfgDir EXCEPT ![call[p].cfgp] = TRUE]
    /\ call' = [call EXCEPT ![p].pc = "w_open"]
    /\ UNCHANGED <<faulty, proj, cfgFile, prev, ncalls>>

\* fs.writeFile opens the file with flag 'w': it is created or truncated
WriteOpen(p) ==
    /\ call[p].pc = "w_open"
    /\ cfgFile' = [cfgFile EXCEPT ![call[p].cfgp] = EmptyText]
    /\ call' = [call EXCEPT ![p].pc = "w_write"]
    /\ UNCHANGED <<faulty, proj, cfgDir, prev, ncalls>>

\* fs.writeFile writes JSON.stringify(data, null, 2) over what the file
\* holds by now; the handler returns
WriteData(p) ==
    /\ call[p].pc = "w_write"
    /\ cfgFile' = [cfgFile EXCEPT ![call[p].cfgp] =
                    Overwrite(@, JsonStringify(call[p].config))]
    /\ call' = [call EXCEPT ![p] = Succeeded(call[p])]
    /\ UNCHANGED <<faulty, proj, cfgDir, prev, ncalls>>

(* ------------------------ external commands ---------------------------- *)

\* executeCommand(command, cwd): the command, <<tool, arguments>>, is
\* recorded; it succeeds or throws "Command execution failed"
Ran(c, command) == [c EXCEPT !.cmds = Append(c.cmds, command)]

\* executeCommand inside a try with a fallback: the command ran and its
\* promise resolved (ok) or rejected
RanWith(c, command, ok) == [Ran(c, command) EXCEPT !.outs = Append(c.outs, ok)]

\* a directory with more top-level entries; nothing is added to a directory
\* that is not there
AddFiles(d, names) == IF d.exists THEN [d EXCEPT !.files = d.files \cup names] ELSE d

\* the exit statuses a command may have in directory d: npm reads
\* package.json first and fails on one that is empty
Exits(command, d) == IF command[1] = "npm" /\ d.emptyPkg THEN {FALSE} ELSE BOOLEAN

\* the entries a command leaves, of those it creates.  The exit status does
\* not tell: a command that failed may have created them before it failed,
\* and only a command that creates them whenever it succeeds (always) is
\* sure to leave them when it succeeds
Leaves(ok, creates, always) == IF ok /\ always THEN {creates} ELSE {{}, creates}

\* what a successful 'mvn clean package' may leave in target/
MavenOutputs == { Readdir({ClassesDir, PlainJar}), Readdir({ClassesDir, PlainJar, FatJar}) }

\* what a successful './gradlew build' leaves in build/libs/
GradleOutputs == { Readdir({PlainJar}) }

\* the directory after a failed 'mvn clean package': as it was, or with
\* target/ removed by clean, or with target/ holding classes and no archive
MavenFailures(d) ==
    IF d.exists
    THEN {d, [d EXCEPT !.files = d.files \ {TargetDir}, !.target = <<>>,
                       !.notDirs = @ \ {TargetDir}],
          [AddFiles(d, {TargetDir}) EXCEPT !.target = Readdir({ClassesDir}),
                                           !.notDirs = @ \ {TargetDir}]}
    ELSE {d}

\* the directory after a failed './gradlew build': as it was, or with a
\* build/ directory it had begun to fill
GradleFailures(d) == {d, AddFiles(d, {BuildDir})}

(* ------------------------ build-server: handler ------------------------ *)

StartBuild(p) ==
    /\ call[p].pc = "idle"
    /\ \E directory \in DirInputs :
          call' = Begin(p, [IdleCall EXCEPT
                               !.op = "build", !.pc = "b_access",
                               !.dir = resolvePath(directory),
                               !.cfgp = getDefaultClaudeConfigPath,
                               !.no = ncalls + 1, !.started = cfgFile])
    /\ ncalls' = ncalls + 1
    /\ UNCHANGED <<faulty, proj, cfgFile, cfgDir, prev>>

\* if (!(await fileExists(fullPath))) return the error
BuildAccess(p) ==
    /\ call[p].pc = "b_access"
    /\ \E found \in Access(fileExists(call[p].dir)) :
          call' = [call EXCEPT ![p] =
                     IF found
                     THEN [call[p] EXCEPT !.pc = "b_readdir"]
                     ELSE Failed(call[p], "DirectoryNotFound")]
    /\ UNCHANGED <<faulty, proj, cfgFile, cfgDir, prev, ncalls>>

\* the branch of build-server with its last else dropped: what matches no
\* rule is built as a node project
BuildKindDefaultsToNode(files) ==
    IF PackageJson \in files THEN "nodejs"
    ELSE IF RequirementsTxt \in files \/ PyprojectToml \in files \/ ServerPy \in files
         THEN "python"
    ELSE IF PomXml \in files \/ BuildGradle \in files THEN "java"
    ELSE "nodejs"

\* the project type build-server chooses from the readdir listing
BuildKind(files) ==
    IF PackageJson \in files THEN "nodejs"
    ELSE IF RequirementsTxt \in files \/ PyprojectToml \in files \/ ServerPy \in files
         THEN "python"
    ELSE IF PomXml \in files \/ BuildGradle \in files THEN "java"
    ELSE "none"

\* const files = await fs.readdir(fullPath), and the branch on its content
BuildReaddir(p) ==
    /\ call[p].pc = "b_readdir"
    /\ LET kind == BuildKind(proj[call[p].dir].files)
       IN  call' = [call EXCEPT ![p] =
                      IF kind = "nodejs" THEN [call[p] EXCEPT !.stype = kind, !.pc = "b_npmInstall"]
                      ELSE IF kind = "python" THEN [call[p] EXCEPT !.stype = kind, !.pc = "b_venv"]
                      ELSE IF kind = "java" THEN [call[p] EXCEPT !.stype = kind, !.pc = "b_hasPom"]
                      ELSE Failed(call[p], "UnrecognizedProjectKind")]
    /\ UNCHANGED <<faulty, proj, cfgFile, cfgDir, prev, ncalls>>

\* buildTypeScriptProject: await executeCommand('npm install', directory);
\* npm creates node_modules when the package has dependencies
BuildNpmInstall(p) ==
    /\ call[p].pc = "b_npmInstall"
    /\ \E ok \in Exits(<<"npm", "install">>, proj[call[p].dir]) :
          /\ call' = [call EXCEPT ![p] =
                        IF ok THEN [Ran(call[p], <<"npm", "install">>) EXCEPT !.pc = "b_npmRunBuild"]
                        ELSE Failed(Ran(call[p], <<"npm", "install">>), "BuildToolFailed")]
          /\ \E left \in Leaves(ok, {NodeModules}, FALSE) :
                proj' = [proj EXCEPT ![call[p].dir] = AddFiles(@, left)]
    /\ UNCHANGED <<faulty, cfgFile, cfgDir, prev, ncalls>>

\* buildTypeScriptProject: await executeCommand('npm run build', directory);
\* the build script of the package decides what is written: build/ may be
\* there after a failure and missing after a success
BuildNpmRunBuild(p) ==
    /\ call[p].pc = "b_npmRunBuild"
    /\ \E ok \in Exits(<<"npm", "run build">>, proj[call[p].dir]) :
          /\ call' = [call EXCEPT ![p] =
                        IF ok THEN Succeeded(Ran(call[p], <<"npm", "run build">>))
                        ELSE Failed(Ran(call[p], <<"npm", "run build">>), "BuildToolFailed")]
          /\ \E left \in Leaves(ok, {BuildDir}, FALSE) :
                proj' = [proj EXCEPT ![call[p].dir] = AddFiles(@, left)]
    /\ UNCHANGED <<faulty, cfgFile, cfgDir, prev, ncalls>>

\* buildPythonProject: const venvExists = await fileExists(.venv)
BuildVenvExists(p) ==
    /\ call[p].pc = "b_venv"
    /\ \E found \in Access(VenvDir \in proj[call[p].dir].files) :
          call' = [call EXCEPT ![p].pc =
                     IF found THEN "b_hasReq" ELSE "b_uvVenv"]
    /\ UNCHANGED <<faulty, proj, cfgFile, cfgDir, prev, ncalls>>

\* try { await executeCommand('uv venv', directory) }
BuildUvVenv(p) ==
    /\ call[p].pc = "b_uvVenv"
    /\ \E ok \in BOOLEAN :
          /\ call' = [call EXCEPT ![p] =
                        [RanWith(call[p], <<"uv", "venv">>, ok) EXCEPT !.pc = IF ok THEN "b_hasReq" ELSE "b_pyVenv"]]
          /\ \E left \in Leaves(ok, {VenvDir}, TRUE) :
                proj' = [proj EXCEPT ![call[p].dir] = AddFiles(@, left)]
    /\ UNCHANGED <<faulty, cfgFile, cfgDir, prev, ncalls>>

\* catch { await executeCommand('python -m venv .venv', directory) }
BuildPythonVenv(p) ==
    /\ call[p].pc = "b_pyVenv"
    /\ \E ok \in BOOLEAN :
          /\ call' = [call EXCEPT ![p] =
                        IF ok THEN [RanWith(call[p], <<"python", "-m venv .venv">>, ok) EXCEPT !.pc = "b_hasReq"]
                        ELSE Failed(RanWith(call[p], <<"python", "-m venv .venv">>, ok), "BuildToolFailed")]
          /\ \E left \in Leaves(ok, {VenvDir}, TRUE) :
                proj' = [proj EXCEPT ![call[p].dir] = AddFiles(@, left)]
    /\ UNCHANGED <<faulty, cfgFile, cfgDir, prev, ncalls>>

\* const hasRequirements = await fileExists(requirements.txt)
BuildHasRequirements(p) ==
    /\ call[p].pc = "b_hasReq"
    /\ \E found \in Access(RequirementsTxt \in proj[call[p].dir].files) :
          call' = [call EXCEPT ![p].hasReq = found,
                               ![p].pc = "b_hasPyproject"]
    /\ UNCHANGED <<faulty, proj, cfgFile, cfgDir, prev, ncalls>>

\* the dependency installation chosen by hasRequirements / hasPyprojectToml
PipArgs(hasRequirements, hasPyprojectToml) ==
    IF hasRequirements THEN "install -r requirements.txt"
    ELSE IF hasPyprojectToml THEN "install -e ."
    ELSE "install mcp[cli]"

\* const hasPyprojectToml = await fileExists(pyproject.toml)
BuildHasPyproject(p) ==
    /\ call[p].pc = "b_hasPyproject"
    /\ \E found \in Access(PyprojectToml \in proj[call[p].dir].files) :
          call' = [call EXCEPT ![p].pip =
                        PipArgs(call[p].hasReq, found),
                               ![p].pc = "b_uvPip"]
    /\ UNCHANGED <<faulty, proj, cfgFile, cfgDir, prev, ncalls>>

\* a dependency installation with uv as its only candidate: a failing
\* 'uv pip install' fails the build
BuildUvPipOnly(p) ==
    /\ call[p].pc = "b_uvPip"
    /\ \E ok \in BOOLEAN :
          call' = [call EXCEPT ![p] =
                     IF ok THEN Succeeded(RanWith(call[p], <<"uv pip", call[p].pip>>, ok))
                     ELSE Failed(RanWith(call[p], <<"uv pip", call[p].pip>>, ok), "BuildToolFailed")]
    /\ UNCHANGED <<faulty, proj, cfgFile, cfgDir, prev, ncalls>>

\* try { await executeCommand('uv pip install ...', directory) }
BuildUvPip(p) ==
    /\ call[p].pc = "b_uvPip"
    /\ \E ok \in BOOLEAN :
          call' = [call EXCEPT ![p] =
                     IF ok THEN Succeeded(RanWith(call[p], <<"uv pip", call[p].pip>>, ok))
                     ELSE [RanWith(call[p], <<"uv pip", call[p].pip>>, ok) EXCEPT !.pc = "b_pip"]]
    /\ UNCHANGED <<faulty, proj, cfgFile, cfgDir, prev, ncalls>>

\* catch { await executeCommand('.venv/bin/pip install ...', directory) }
BuildPip(p) ==
    /\ call[p].pc = "b_pip"
    /\ \E ok \in BOOLEAN :
          call' = [call EXCEPT ![p] =
                     IF ok THEN Succeeded(RanWith(call[p], <<".venv/bin/pip", call[p].pip>>, ok))
                     ELSE Failed(RanWith(call[p], <<".venv/bin/pip", call[p].pip>>, ok), "BuildToolFailed")]
    /\ UNCHANGED <<faulty, proj, cfgFile, cfgDir, prev, ncalls>>

\* buildJavaProject: const hasPomXml = await fileExists(pom.xml)
BuildHasPom(p) ==
    /\ call[p].pc = "b_hasPom"
    /\ \E found \in Access(PomXml \in proj[call[p].dir].files) :
          call' = [call EXCEPT ![p].hasTarget = found,
                               ![p].pc = "b_hasGradle"]
    /\ UNCHANGED <<faulty, proj, cfgFile, cfgDir, prev, ncalls>>

\* const hasBuildGradle = await fileExists(build.gradle); hasTarget holds
\* hasPomXml here
BuildHasGradle(p) ==
    /\ call[p].pc = "b_hasGradle"
    /\ \E found \in Access(BuildGradle \in proj[call[p].dir].files) :
          call' = [call EXCEPT ![p] =
                     IF call[p].hasTarget THEN [call[p] EXCEPT !.pc = "b_mvn"]
                     ELSE IF found
                          THEN [call[p] EXCEPT !.pc = "b_gradle"]
                          ELSE Failed(call[p], "BuildToolFailed")]
    /\ UNCHANGED <<faulty, proj, cfgFile, cfgDir, prev, ncalls>>

\* await executeCommand('mvn clean package', directory)
BuildMvn(p) ==
    /\ call[p].pc = "b_mvn"
    /\ \/ /\ call' = [call EXCEPT ![p] =
                        Failed(Ran(call[p], <<"mvn", "clean package">>), "BuildToolFailed")]
          /\ \E d \in MavenFailures(proj[call[p].dir]) :
                proj' = [proj EXCEPT ![call[p].dir] = d]
       \/ \E out \in MavenOutputs :
             /\ call' = [call EXCEPT ![p] = Succeeded(Ran(call[p], <<"mvn", "clean package">>))]
             /\ proj' = IF proj[call[p].dir].exists
                        THEN [proj EXCEPT ![call[p].dir] =
                                 [AddFiles(@, {TargetDir}) EXCEPT
                                     !.target = out, !.notDirs = @ \ {TargetDir}]]
                        ELSE proj
    /\ UNCHANGED <<faulty, cfgFile, cfgDir, prev, ncalls>>

\* await executeCommand('./gradlew build', directory)
BuildGradlew(p) ==
    /\ call[p].pc = "b_gradle"
    /\ \/ /\ call' = [call EXCEPT ![p] =
                        Failed(Ran(call[p], <<"./gradlew", "build">>), "BuildToolFailed")]
          /\ \E d \in GradleFailures(proj[call[p].dir]) :
                proj' = [proj EXCEPT ![call[p].dir] = d]
       \/ \E out \in GradleOutputs :
             /\ call' = [call EXCEPT ![p] = Succeeded(Ran(call[p], <<"./gradlew", "build">>))]
             /\ proj' = IF proj[call[p].dir].exists
                        THEN [proj EXCEPT ![call[p].dir] =
                                 [AddFiles(@, {BuildDir}) EXCEPT
                                     !.hasLibs = TRUE, !.libs = out,
                                     !.notDirs = @ \ {LibsDir}]]
                        ELSE proj
    /\ UNCHANGED <<faulty, cfgFile, cfgDir, prev, ncalls>>

(* ----------------------- create-server: handler ------------------------ *)

\* the (name, directory) pairs create-server is called with
CreateInputs ==
    { <<NameA, InPath("rel", <<>>)>>, <<NameA, InPath("tilde", <<>>)>>,
      <<NameXY, InPath("rel", <<>>)>> }

\* const fullPath = path.join(resolvePath(directory), name), then await
\* fileExists(fullPath)
StartCreate(p) ==
    /\ call[p].pc = "idle"
    /\ \E in \in CreateInputs, language \in Languages :
          call' = Begin(p, [IdleCall EXCEPT
                               !.op = "create", !.pc = "c_access",
                               !.dir = Join(resolvePath(in[2]), <<in[1]>>),
                               !.name = in[1], !.lang = language,
                               !.cfgp = getDefaultClaudeConfigPath,
                               !.no = ncalls + 1, !.started = cfgFile,
                               !.found = proj[Join(resolvePath(in[2]), <<in[1]>>)]])
    /\ ncalls' = ncalls + 1
    /\ UNCHANGED <<faulty, proj, cfgFile, cfgDir, prev>>

\* if (await fileExists(fullPath)) return the error
CreateAccess(p) ==
    /\ call[p].pc = "c_access"
    /\ \E found \in Access(fileExists(call[p].dir)) :
          call' = [call EXCEPT ![p] =
                     IF found
                     THEN Failed(call[p], "AlreadyExists")
                     ELSE [call[p] EXCEPT !.pc = "c_mkdir"]]
    /\ UNCHANGED <<faulty, proj, cfgFile, cfgDir, prev, ncalls>>

\* the first await of the scaffolder of each language
ScaffoldEntry(language) ==
    IF language = "typescript" THEN "s_npmInit"
    ELSE IF language = "python" THEN "s_uvVenv"
    ELSE "s_javaDir"

\* await ensureDir(fullPath): fs.mkdir(dirPath, { recursive: true })
CreateMkdir(p) ==
    /\ call[p].pc = "c_mkdir"
    /\ proj' = IF proj[call[p].dir].exists THEN proj
               ELSE [proj EXCEPT ![call[p].dir] = EmptyDir]
    /\ call' = [call EXCEPT ![p].pc = ScaffoldEntry(call[p].lang)]
    /\ UNCHANGED <<faulty, cfgFile, cfgDir, prev, ncalls>>

\* a scaffolder step that removes the target directory when its command
\* fails for good
ScaffoldCommandRollsBack(p, at, command, creates, next, onFail) ==
    /\ call[p].pc = at
    /\ \E ok \in BOOLEAN :
          /\ call' = [call EXCEPT ![p] =
                        IF ok THEN [Ran(call[p], command) EXCEPT !.pc = next]
                        ELSE IF onFail = "throw"
                             THEN Failed(Ran(call[p], command), "ScaffoldFailed")
                             ELSE [Ran(call[p], command) EXCEPT !.pc = onFail]]
          /\ proj' = IF ok THEN [proj EXCEPT ![call[p].dir] = AddFiles(@, creates)]
                     ELSE IF onFail = "throw" THEN [proj EXCEPT ![call[p].dir] = NoDir]
                     ELSE proj
    /\ UNCHANGED <<faulty, cfgFile, cfgDir, prev, ncalls>>

\* a scaffolder step that runs a command: on success the entries it creates
\* are there and the scaffolder goes on; on failure it goes to onFail, or the
\* handler returns the failure when there is no fallback, and what the
\* command created before it failed stays
ScaffoldCommand(p, at, command, creates, next, onFail) ==
    /\ call[p].pc = at
    /\ \E ok \in Exits(command, proj[call[p].dir]) :
          /\ call' = [call EXCEPT ![p] =
                        IF ok THEN [Ran(call[p], command) EXCEPT !.pc = next]
                        ELSE IF onFail = "throw"
                             THEN Failed(Ran(call[p], command), "ScaffoldFailed")
                             ELSE [Ran(call[p], command) EXCEPT !.pc = onFail]]
          /\ \E left \in Leaves(ok, creates, TRUE) :
                proj' = [proj EXCEPT ![call[p].dir] = AddFiles(@, left)]
    /\ UNCHANGED <<faulty, cfgFile, cfgDir, prev, ncalls>>

\* a scaffolder step that is one awaited fs.writeFile, fs.mkdir or ensureDir:
\* the top-level entries it creates appear (none when it writes below src/
\* or rewrites a file)
ScaffoldWrite(p, at, creates, next) ==
    /\ call[p].pc = at
    /\ proj' = [proj EXCEPT ![call[p].dir] = AddFiles(@, creates)]
    /\ call' = [call EXCEPT ![p] =
                  IF next = "return" THEN Succeeded(call[p])
                  ELSE [call[p] EXCEPT !.pc = next]]
    /\ UNCHANGED <<faulty, cfgFile, cfgDir, prev, ncalls>>

\* createTypeScriptProject
CreateNpmInit(p) ==
    ScaffoldCommand(p, "s_npmInit", <<"npm", "init -y">>, {PackageJson}, "s_npmInstall", "throw")

CreateNpmInstall(p) ==
    ScaffoldCommand(p, "s_npmInstall", <<"npm", "install @modelcontextprotocol/sdk zod">>,
                    {NodeModules}, "s_npmInstallDev", "throw")

CreateNpmInstallDev(p) ==
    ScaffoldCommand(p, "s_npmInstallDev", <<"npm", "install -D typescript @types/node">>,
                    {}, "s_tsconfig", "throw")

\* await fs.writeFile(path.join(directory, "tsconfig.json"), ...)
CreateTsConfig(p) == ScaffoldWrite(p, "s_tsconfig", {TsConfigJson}, "s_readPackage")

\* JSON.parse(await fs.readFile(<directory>/package.json, 'utf-8')):
\* readFile rejects when there is no package.json, and JSON.parse throws
\* 'Unexpected end of JSON input' on one that is empty
ReadPackage(p, at, next) ==
    /\ call[p].pc = at
    /\ call' = [call EXCEPT ![p] =
                  IF PackageJson \notin proj[call[p].dir].files THEN Failed(call[p], "IoError")
                  ELSE IF proj[call[p].dir].emptyPkg THEN Failed(call[p], "ScaffoldFailed")
                  ELSE [call[p] EXCEPT !.pc = next]]
    /\ UNCHANGED <<faulty, proj, cfgFile, cfgDir, prev, ncalls>>

\* fs.writeFile(<directory>/package.json, ...) opens the file with flag 'w':
\* it is created or truncated
OpenPackage(p, at, next) ==
    /\ call[p].pc = at
    /\ proj' = [proj EXCEPT ![call[p].dir] = [AddFiles(@, {PackageJson}) EXCEPT !.emptyPkg = TRUE]]
    /\ call' = [call EXCEPT ![p].pc = next]
    /\ UNCHANGED <<faulty, cfgFile, cfgDir, prev, ncalls>>

\* fs.writeFile then writes the text of the updated package.json
WritePackage(p, at, next) ==
    /\ call[p].pc = at
    /\ proj' = [proj EXCEPT ![call[p].dir] = [AddFiles(@, {PackageJson}) EXCEPT !.emptyPkg = FALSE]]
    /\ call' = [call EXCEPT ![p].pc = next]
    /\ UNCHANGED <<faulty, cfgFile, cfgDir, prev, ncalls>>

\* const packageJson = JSON.parse(await fs.readFile(packageJsonPath, 'utf-8'))
CreateReadPackage(p) == ReadPackage(p, "s_readPackage", "s_writePackage")

\* await fs.writeFile(packageJsonPath, ...): the open
CreateWritePackage(p) == OpenPackage(p, "s_writePackage", "s_packageData")

\* await fs.writeFile(packageJsonPath, ...): the write
CreateWritePackageData(p) == WritePackage(p, "s_packageData", "s_srcDir")

\* await ensureDir(srcDir)
CreateSrcDir(p) == ScaffoldWrite(p, "s_srcDir", {SrcDir}, "s_indexTs")

\* await fs.writeFile(path.join(srcDir, "index.ts"), indexContent)
CreateIndexTs(p) == ScaffoldWrite(p, "s_indexTs", {}, "s_tsReadme")

\* await fs.writeFile(path.join(directory, "README.md"), readmeContent)
CreateTsReadme(p) == ScaffoldWrite(p, "s_tsReadme", {ReadmeMd}, "return")

\* createPythonProject
CreateUvVenv(p) ==
    ScaffoldCommand(p, "s_uvVenv", <<"uv", "venv">>, {VenvDir}, "s_requirements", "s_pyVenv")

CreatePythonVenv(p) ==
    ScaffoldCommand(p, "s_pyVenv", <<"python", "-m venv .venv">>, {VenvDir},
                    "s_requirements", "throw")

CreateRequirements(p) ==
    ScaffoldWrite(p, "s_requirements", {RequirementsTxt}, "s_uvPip")

CreateUvPip(p) ==
    ScaffoldCommand(p, "s_uvPip", <<"uv pip", "install -r requirements.txt">>, {},
                    "s_serverPy", "s_pip")

CreatePip(p) ==
    ScaffoldCommand(p, "s_pip", <<".venv/bin/pip", "install -r requirements.txt">>, {},
                    "s_serverPy", "throw")

\* await fs.writeFile(path.join(directory, "server.py"), serverContent)
CreateServerPy(p) == ScaffoldWrite(p, "s_serverPy", {ServerPy}, "s_pyReadme")

\* await fs.writeFile(path.join(directory, "README.md"), readmeContent)
CreatePyReadme(p) == ScaffoldWrite(p, "s_pyReadme", {ReadmeMd}, "return")

\* createJavaProject: await ensureDir(mainJavaDir), src/main/java/<package>
CreateJavaDir(p) == ScaffoldWrite(p, "s_javaDir", {SrcDir}, "s_javaServer")

\* await fs.writeFile(path.join(mainJavaDir, <Name>Server.java), javaContent)
CreateJavaServer(p) == ScaffoldWrite(p, "s_javaServer", {}, "s_pom")

\* await fs.writeFile(path.join(directory, "pom.xml"), pomContent)
CreatePom(p) == ScaffoldWrite(p, "s_pom", {PomXml}, "s_javaReadme")

\* await fs.writeFile(path.join(directory, "README.md"), readmeContent)
CreateJavaReadme(p) == ScaffoldWrite(p, "s_javaReadme", {ReadmeMd}, "return")

(* ------------- create-server: the handler of src/index.ts -------------- *)

\* The repository registers create-server a second time, in src/index.ts,
\* with a handler that does not look whether the target exists.

\* const fullPath = path.resolve(directory, name), then await
\* fs.mkdir(fullPath, { recursive: true })
StartMonoCreate(p) ==
    /\ call[p].pc = "idle"
    /\ \E name \in {NameA, NameXY}, language \in Languages :
          call' = Begin(p, [IdleCall EXCEPT
                               !.op = "createMono", !.pc = "m_mkdir",
                               !.dir = Join(Cwd, <<name>>),
                               !.name = name, !.lang = language,
                               !.cfgp = getDefaultClaudeConfigPath,
                               !.no = ncalls + 1, !.started = cfgFile,
                               !.found = proj[Join(Cwd, <<name>>)]])
    /\ ncalls' = ncalls + 1
    /\ UNCHANGED <<faulty, proj, cfgFile, cfgDir, prev>>

\* await fs.mkdir(fullPath, { recursive: true }): no error when it exists
MonoCreateMkdir(p) ==
    /\ call[p].pc = "m_mkdir"
    /\ proj' = IF proj[call[p].dir].exists THEN proj
               ELSE [proj EXCEPT ![call[p].dir] = EmptyDir]
    /\ call' = [call EXCEPT ![p].pc =
                  IF call[p].lang = "typescript" THEN "m_npmInit"
                  ELSE IF call[p].lang = "python" THEN "m_uvVenv"
                  ELSE "m_javaDir"]
    /\ UNCHANGED <<faulty, cfgFile, cfgDir, prev, ncalls>>

\* createTypeScriptProject of src/index.ts
MonoNpmInit(p) ==
    ScaffoldCommand(p, "m_npmInit", <<"npm", "init -y">>, {PackageJson}, "m_npmInstall", "throw")

MonoNpmInstall(p) ==
    ScaffoldCommand(p, "m_npmInstall", <<"npm", "install @modelcontextprotocol/sdk zod">>,
                    {NodeModules}, "m_npmInstallDev", "throw")

MonoNpmInstallDev(p) ==
    ScaffoldCommand(p, "m_npmInstallDev", <<"npm", "install -D typescript @types/node">>,
                    {}, "m_tsconfig", "throw")

\* await fs.writeFile(path.join(directory, "tsconfig.json"), ...)
MonoTsConfig(p) == ScaffoldWrite(p, "m_tsconfig", {TsConfigJson}, "m_readPackage")

\* JSON.parse(await fs.readFile(path.join(directory, "package.json"), "utf-8"))
MonoReadPackage(p) == ReadPackage(p, "m_readPackage", "m_writePackage")

\* await fs.writeFile(path.join(directory, "package.json"), ...): the open
MonoWritePackage(p) == OpenPackage(p, "m_writePackage", "m_packageData")

\* await fs.writeFile(path.join(directory, "package.json"), ...): the write
MonoWritePackageData(p) == WritePackage(p, "m_packageData", "m_srcDir")

\* await fs.mkdir(path.join(directory, "src"), { recursive: true })
MonoSrcDir(p) == ScaffoldWrite(p, "m_srcDir", {SrcDir}, "m_indexTs")

\* await fs.writeFile(path.join(directory, "src", "index.ts"), indexContent)
MonoIndexTs(p) == ScaffoldWrite(p, "m_indexTs", {}, "return")

\* createPythonProject of src/index.ts
MonoUvVenv(p) ==
    ScaffoldCommand(p, "m_uvVenv", <<"uv", "venv">>, {VenvDir}, "m_uvAdd", "throw")

MonoUvAdd(p) ==
    ScaffoldCommand(p, "m_uvAdd", <<"uv", "add mcp[cli]">>, {}, "m_serverPy", "throw")

\* await fs.writeFile(path.join(directory, "server.py"), serverContent)
MonoServerPy(p) == ScaffoldWrite(p, "m_serverPy", {ServerPy}, "m_requirements")

\* await fs.writeFile(path.join(directory, "requirements.txt"), "mcp[cli]\n")
MonoRequirements(p) == ScaffoldWrite(p, "m_requirements", {RequirementsTxt}, "return")

\* createJavaProject of src/index.ts: await fs.mkdir(src/main/java)
MonoJavaDir(p) == ScaffoldWrite(p, "m_javaDir", {SrcDir}, "m_javaServer")

\* await fs.writeFile(src/main/java/<Name>Server.java, javaContent)
MonoJavaServer(p) == ScaffoldWrite(p, "m_javaServer", {}, "m_pom")

\* await fs.writeFile(path.join(directory, "pom.xml"), pomContent)
MonoPom(p) == ScaffoldWrite(p, "m_pom", {PomXml}, "return")

MonoCreateStep(p) ==
    \/ MonoCreateMkdir(p)
    \/ MonoNpmInit(p) \/ MonoNpmInstall(p) \/ MonoNpmInstallDev(p)
    \/ MonoTsConfig(p) \/ MonoReadPackage(p) \/ MonoWritePackage(p)
    \/ MonoWritePackageData(p) \/ MonoSrcDir(p)
    \/ MonoIndexTs(p)
    \/ MonoUvVenv(p) \/ MonoUvAdd(p) \/ MonoServerPy(p) \/ MonoRequirements(p)
    \/ MonoJavaDir(p) \/ MonoJavaServer(p) \/ MonoPom(p)

(* ------------ install-server: the handler of src/index.ts -------------- *)

\* The repository registers install-server and build-server a second time,
\* in src/index.ts.  That install handler resolves its directory with
\* path.resolve alone, uses configPath as it is given, detects the kind from
\* the listing only, registers the first .jar and writes the config file
\* without creating its directory.

\* const fullPath = path.resolve(directory), then await fs.access(fullPath)
StartMonoInstall(p) ==
    /\ call[p].pc = "idle"
    /\ \E directory \in DirInputs, configPath \in CfgInputs :
          call' = Begin(p, [IdleCall EXCEPT
                               !.op = "installMono", !.pc = "mi_access",
                               !.dir = pathResolve(directory),
                               !.cfgp = getDefaultClaudeConfigPath,
                               !.input = [dir |-> directory, cfg |-> configPath],
                               !.no = ncalls + 1, !.started = cfgFile])
    /\ ncalls' = ncalls + 1
    /\ UNCHANGED <<faulty, proj, cfgFile, cfgDir, prev>>

\* await fs.access(fullPath): a rejection reaches the catch of the handler
MonoInstallAccess(p) ==
    /\ call[p].pc = "mi_access"
    /\ \E found \in Access(fileExists(call[p].dir)) :
          call' = [call EXCEPT ![p] =
                     IF found
                     THEN [call[p] EXCEPT !.pc = "mi_readdir"]
                     ELSE Failed(call[p], "IoError")]
    /\ UNCHANGED <<faulty, proj, cfgFile, cfgDir, prev, ncalls>>

\* determineServerType of src/index.ts; "none" where it throws
MonoInstallKind(files) ==
    IF PackageJson \in files THEN "nodejs"
    ELSE IF ServerPy \in files \/ MainPy \in files THEN "python"
    ELSE IF PomXml \in files \/ BuildGradle \in files THEN "java"
    ELSE "none"

\* configPath || await getDefaultClaudeConfigPath(): the path as given, which
\* the file system resolves against the working directory
monoConfigPath(configPath) ==
    IF configPath.given /\ configPath.path.kind # "empty"
    THEN pathResolve(configPath.path) ELSE getDefaultClaudeConfigPath

\* const files = await fs.readdir(directory); then the config path, and
\* updateClaudeConfig up to its first await
MonoInstallReaddir(p) ==
    /\ call[p].pc = "mi_readdir"
    /\ LET kind == MonoInstallKind(proj[call[p].dir].files)
       IN  call' = [call EXCEPT ![p] =
                      IF kind = "none" THEN Failed(call[p], "UnrecognizedProjectKind")
                      ELSE [call[p] EXCEPT !.stype = kind,
                                           !.cfgp = monoConfigPath(call[p].input.cfg),
                                           !.config = DefaultConfig, !.pc = "mu_read"]]
    /\ UNCHANGED <<faulty, proj, cfgFile, cfgDir, prev, ncalls>>

\* config.mcpServers[serverName] = entry, up to await fs.writeFile; a
\* TypeError reaches the catch of the handler
MonoRegister(c, entry) ==
    LET set == SetEntry(c.config, c.name, entry)
    IN  IF set.ok THEN [c EXCEPT !.config = set.val, !.entry = entry, !.pc = "mw_open"]
        ELSE Failed(c, "TypeError")

\* await fs.readFile(configPath) and JSON.parse inside the try whose catch
\* keeps what config holds; then path.basename and the branch on the type
MonoUpdateRead(p) ==
    /\ call[p].pc = "mu_read"
    /\ \E text \in Reads(FileAt(call[p].cfgp)) :
          LET c == [call[p] EXCEPT !.config = LoadConfig(text),
                                   !.name = Basename(call[p].dir)]
          IN  call' = [call EXCEPT ![p] =
                         IF c.stype = "nodejs" THEN MonoRegister(c, NodeEntry(c.dir))
                         ELSE IF c.stype = "python" THEN [c EXCEPT !.pc = "ml_serverPy"]
                         ELSE [c EXCEPT !.pc = "ml_target"]]
    /\ UNCHANGED <<faulty, proj, cfgFile, cfgDir, prev, ncalls>>

\* const hasPyFile = await fileExists(path.join(serverDir, "server.py"))
MonoLocateServerPy(p) ==
    /\ call[p].pc = "ml_serverPy"
    /\ \E found \in Access(ServerPy \in proj[call[p].dir].files) :
          call' = [call EXCEPT ![p] =
                     IF found
                     THEN MonoRegister(call[p], UvEntry(call[p].dir))
                     ELSE MonoRegister(call[p], ModuleEntry(call[p].name))]
    /\ UNCHANGED <<faulty, proj, cfgFile, cfgDir, prev, ncalls>>

\* const isMaven = await fileExists(path.join(serverDir, "target"))
MonoLocateTarget(p) ==
    /\ call[p].pc = "ml_target"
    /\ \E found \in Access(TargetDir \in proj[call[p].dir].files) :
          call' = [call EXCEPT ![p].hasTarget = found,
                               ![p].pc = "ml_scan"]
    /\ UNCHANGED <<faulty, proj, cfgFile, cfgDir, prev, ncalls>>

\* const files = await fs.readdir(jarPath), target/ or build/libs: it
\* rejects when the directory is missing or is no directory; then
\* files.find(.jar)
MonoScan(p) ==
    /\ call[p].pc = "ml_scan"
    /\ LET c == call[p]
           d == proj[c.dir]
           there == Listable(d, IF c.hasTarget THEN TargetDir ELSE LibsDir)
           jar == FindSuffix(IF c.hasTarget THEN d.target ELSE d.libs, <<".jar">>)
       IN  call' = [call EXCEPT ![p] =
                      IF ~there THEN Failed(c, "IoError")
                      ELSE IF ~jar.found THEN Failed(c, "ArtifactNotFound")
                      ELSE MonoRegister(c, IF c.hasTarget THEN MavenEntry(c.dir, jar.file)
                                           ELSE GradleEntry(c.dir, jar.file))]
    /\ UNCHANGED <<faulty, proj, cfgFile, cfgDir, prev, ncalls>>

\* await fs.writeFile(configPath, ...): the open creates or truncates the
\* file, and rejects when its directory does not exist
MonoWriteOpen(p) ==
    /\ call[p].pc = "mw_open"
    /\ IF DirAt(call[p].cfgp)
       THEN /\ cfgFile' = [cfgFile EXCEPT ![call[p].cfgp] = EmptyText]
            /\ call' = [call EXCEPT ![p].pc = "mw_write"]
       ELSE /\ cfgFile' = cfgFile
            /\ call' = [call EXCEPT ![p] = Failed(call[p], "IoError")]
    /\ UNCHANGED <<faulty, proj, cfgDir, prev, ncalls>>

\* fs.writeFile writes JSON.stringify(config, null, 2); the handler returns
MonoWriteData(p) ==
    /\ call[p].pc = "mw_write"
    /\ cfgFile' = [cfgFile EXCEPT ![call[p].cfgp] =
                    Overwrite(@, JsonStringify(call[p].config))]
    /\ call' = [call EXCEPT ![p] = Succeeded(call[p])]
    /\ UNCHANGED <<faulty, proj, cfgDir, prev, ncalls>>

MonoInstallStep(p) ==
    \/ MonoInstallAccess(p) \/ MonoInstallReaddir(p) \/ MonoUpdateRead(p)
    \/ MonoLocateServerPy(p) \/ MonoLocateTarget(p) \/ MonoScan(p)
    \/ MonoWriteOpen(p) \/ MonoWriteData(p)

(* -------------- build-server: the handler of src/index.ts -------------- *)

\* const fullPath = path.resolve(directory), then await fs.access(fullPath)
StartMonoBuild(p) ==
    /\ call[p].pc = "idle"
    /\ \E directory \in DirInputs :
          call' = Begin(p, [IdleCall EXCEPT
                               !.op = "buildMono", !.pc = "mb_access",
                               !.dir = pathResolve(directory),
                               !.cfgp = getDefaultClaudeConfigPath,
                               !.no = ncalls + 1, !.started = cfgFile])
    /\ ncalls' = ncalls + 1
    /\ UNCHANGED <<faulty, proj, cfgFile, cfgDir, prev>>

\* await fs.access(fullPath): a rejection reaches the catch of the handler
MonoBuildAccess(p) ==
    /\ call[p].pc = "mb_access"
    /\ \E found \in Access(fileExists(call[p].dir)) :
          call' = [call EXCEPT ![p] =
                     IF found
                     THEN [call[p] EXCEPT !.pc = "mb_readdir"]
                     ELSE Failed(call[p], "IoError")]
    /\ UNCHANGED <<faulty, proj, cfgFile, cfgDir, prev, ncalls>>

\* the project type the handler chooses from the readdir listing
MonoBuildKind(files) ==
    IF PackageJson \in files THEN "nodejs"
    ELSE IF RequirementsTxt \in files \/ PyprojectToml \in files THEN "python"
    ELSE IF PomXml \in files \/ BuildGradle \in files THEN "java"
    ELSE "none"

\* const files = await fs.readdir(fullPath), and the branch on its content
MonoBuildReaddir(p) ==
    /\ call[p].pc = "mb_readdir"
    /\ LET kind == MonoBuildKind(proj[call[p].dir].files)
       IN  call' = [call EXCEPT ![p] =
                      IF kind = "nodejs" THEN [call[p] EXCEPT !.stype = kind, !.pc = "mb_npmInstall"]
                      ELSE IF kind = "python" THEN [call[p] EXCEPT !.stype = kind, !.pc = "mb_venv"]
                      ELSE IF kind = "java" THEN [call[p] EXCEPT !.stype = kind, !.pc = "mb_hasPom"]
                      ELSE Failed(call[p], "UnrecognizedProjectKind")]
    /\ UNCHANGED <<faulty, proj, cfgFile, cfgDir, prev, ncalls>>

\* buildTypeScriptProject: await execFileAsync("npm", ["install"])
MonoBuildNpmInstall(p) ==
    /\ call[p].pc = "mb_npmInstall"
    /\ \E ok \in Exits(<<"npm", "install">>, proj[call[p].dir]) :
          /\ call' = [call EXCEPT ![p] =
                        IF ok THEN [Ran(call[p], <<"npm", "install">>) EXCEPT !.pc = "mb_npmRunBuild"]
                        ELSE Failed(Ran(call[p], <<"npm", "install">>), "BuildToolFailed")]
          /\ \E left \in Leaves(ok, {NodeModules}, FALSE) :
                proj' = [proj EXCEPT ![call[p].dir] = AddFiles(@, left)]
    /\ UNCHANGED <<faulty, cfgFile, cfgDir, prev, ncalls>>

\* await execFileAsync("npm", ["run", "build"])
MonoBuildNpmRunBuild(p) ==
    /\ call[p].pc = "mb_npmRunBuild"
    /\ \E ok \in Exits(<<"npm", "run build">>, proj[call[p].dir]) :
          /\ call' = [call EXCEPT ![p] =
                        IF ok THEN Succeeded(Ran(call[p], <<"npm", "run build">>))
                        ELSE Failed(Ran(call[p], <<"npm", "run build">>), "BuildToolFailed")]
          /\ \E left \in Leaves(ok, {BuildDir}, FALSE) :
                proj' = [proj EXCEPT ![call[p].dir] = AddFiles(@, left)]
    /\ UNCHANGED <<faulty, cfgFile, cfgDir, prev, ncalls>>

\* buildPythonProject: try { await fs.access(.venv) }
MonoBuildVenv(p) ==
    /\ call[p].pc = "mb_venv"
    /\ \E found \in Access(VenvDir \in proj[call[p].dir].files) :
          call' = [call EXCEPT ![p].pc =
                     IF found THEN "mb_hasReq" ELSE "mb_uvVenv"]
    /\ UNCHANGED <<faulty, proj, cfgFile, cfgDir, prev, ncalls>>

\* catch { await execFileAsync("uv", ["venv"]) }: there is no fallback
MonoBuildUvVenv(p) ==
    /\ call[p].pc = "mb_uvVenv"
    /\ \E ok \in BOOLEAN :
          /\ call' = [call EXCEPT ![p] =
                        IF ok THEN [Ran(call[p], <<"uv", "venv">>) EXCEPT !.pc = "mb_hasReq"]
                        ELSE Failed(Ran(call[p], <<"uv", "venv">>), "BuildToolFailed")]
          /\ \E left \in Leaves(ok, {VenvDir}, TRUE) :
                proj' = [proj EXCEPT ![call[p].dir] = AddFiles(@, left)]
    /\ UNCHANGED <<faulty, cfgFile, cfgDir, prev, ncalls>>

\* if (await fileExists(requirements.txt))
MonoBuildHasRequirements(p) ==
    /\ call[p].pc = "mb_hasReq"
    /\ \E found \in Access(RequirementsTxt \in proj[call[p].dir].files) :
          call' = [call EXCEPT ![p] =
                     IF found
                     THEN [call[p] EXCEPT !.pip = "install -r requirements.txt", !.pc = "mb_uvPip"]
                     ELSE [call[p] EXCEPT !.pc = "mb_hasPyproject"]]
    /\ UNCHANGED <<faulty, proj, cfgFile, cfgDir, prev, ncalls>>

\* else if (await fileExists(pyproject.toml)); with neither file nothing is
\* installed and the build has succeeded
MonoBuildHasPyproject(p) ==
    /\ call[p].pc = "mb_hasPyproject"
    /\ \E found \in Access(PyprojectToml \in proj[call[p].dir].files) :
          call' = [call EXCEPT ![p] =
                     IF found
                     THEN [call[p] EXCEPT !.pip = "install -e .", !.pc = "mb_uvPip"]
                     ELSE Succeeded(call[p])]
    /\ UNCHANGED <<faulty, proj, cfgFile, cfgDir, prev, ncalls>>

\* await execFileAsync("uv", ["pip", "install", ...]): there is no fallback
MonoBuildUvPip(p) ==
    /\ call[p].pc = "mb_uvPip"
    /\ \E ok \in BOOLEAN :
          call' = [call EXCEPT ![p] =
                     IF ok THEN Succeeded(Ran(call[p], <<"uv pip", call[p].pip>>))
                     ELSE Failed(Ran(call[p], <<"uv pip", call[p].pip>>), "BuildToolFailed")]
    /\ UNCHANGED <<faulty, proj, cfgFile, cfgDir, prev, ncalls>>

\* buildJavaProject: if (await fileExists(pom.xml))
MonoBuildHasPom(p) ==
    /\ call[p].pc = "mb_hasPom"
    /\ \E found \in Access(PomXml \in proj[call[p].dir].files) :
          call' = [call EXCEPT ![p].pc =
                     IF found THEN "mb_mvn" ELSE "mb_hasGradle"]
    /\ UNCHANGED <<faulty, proj, cfgFile, cfgDir, prev, ncalls>>

\* else if (await fileExists(build.gradle)); with neither file nothing is
\* run and the build has succeeded
MonoBuildHasGradle(p) ==
    /\ call[p].pc = "mb_hasGradle"
    /\ \E found \in Access(BuildGradle \in proj[call[p].dir].files) :
          call' = [call EXCEPT ![p] =
                     IF found
                     THEN [call[p] EXCEPT !.pc = "mb_gradle"]
                     ELSE Succeeded(call[p])]
    /\ UNCHANGED <<faulty, proj, cfgFile, cfgDir, prev, ncalls>>

\* await execFileAsync("mvn", ["clean", "package"])
MonoBuildMvn(p) ==
    /\ call[p].pc = "mb_mvn"
    /\ \/ /\ call' = [call EXCEPT ![p] =
                        Failed(Ran(call[p], <<"mvn", "clean package">>), "BuildToolFailed")]
          /\ \E d \in MavenFailures(proj[call[p].dir]) :
                proj' = [proj EXCEPT ![call[p].dir] = d]
       \/ \E out \in MavenOutputs :
             /\ call' = [call EXCEPT ![p] = Succeeded(Ran(call[p], <<"mvn", "clean package">>))]
             /\ proj' = IF proj[call[p].dir].exists
                        THEN [proj EXCEPT ![call[p].dir] =
                                 [AddFiles(@, {TargetDir}) EXCEPT
                                     !.target = out, !.notDirs = @ \ {TargetDir}]]
                        ELSE proj
    /\ UNCHANGED <<faulty, cfgFile, cfgDir, prev, ncalls>>

\* await execFileAsync("./gradlew", ["build"])
MonoBuildGradlew(p) ==
    /\ call[p].pc = "mb_gradle"
    /\ \/ /\ call' = [call EXCEPT ![p] =
                        Failed(Ran(call[p], <<"./gradlew", "build">>), "BuildToolFailed")]
          /\ \E d \in GradleFailures(proj[call[p].dir]) :
                proj' = [proj EXCEPT ![call[p].dir] = d]
       \/ \E out \in GradleOutputs :
             /\ call' = [call EXCEPT ![p] = Succeeded(Ran(call[p], <<"./gradlew", "build">>))]
             /\ proj' = IF proj[call[p].dir].exists
                        THEN [proj EXCEPT ![call[p].dir] =
                                 [AddFiles(@, {BuildDir}) EXCEPT
                                     !.hasLibs = TRUE, !.libs = out,
                                     !.notDirs = @ \ {LibsDir}]]
                        ELSE proj
    /\ UNCHANGED <<faulty, cfgFile, cfgDir, prev, ncalls>>

MonoBuildStep(p) ==
    \/ MonoBuildAccess(p) \/ MonoBuildReaddir(p)
    \/ MonoBuildNpmInstall(p) \/ MonoBuildNpmRunBuild(p)
    \/ MonoBuildVenv(p) \/ MonoBuildUvVenv(p) \/ MonoBuildHasRequirements(p)
    \/ MonoBuildHasPyproject(p) \/ MonoBuildUvPip(p)
    \/ MonoBuildHasPom(p) \/ MonoBuildHasGradle(p) \/ MonoBuildMvn(p) \/ MonoBuildGradlew(p)

(* ------------------------------ return --------------------------------- *)

\* what is remembered of the call that returned last
Summary(c, after) ==
    [op |-> c.op, dir |-> c.dir, cfgp |-> c.cfgp, name |-> c.name,
     result |-> c.result, err |-> c.err, after |-> after]

NoSummary == Summary(IdleCall, Absent)

\* the result has been delivered to the caller; the slot is free again
Return(p) ==
    /\ call[p].pc = "done"
    /\ prev' = Summary(call[p], FileAt(call[p].cfgp))
    /\ call' = [call EXCEPT ![p] = IdleCall]
    /\ UNCHANGED <<faulty, proj, cfgFile, cfgDir, ncalls>>

(* --------------------------- initial states ---------------------------- *)

Keys(m) == {kv[1] : kv \in m}

StaleA == Entry("npx", << Str("old-a") >>, "env")
ForeignZ == Entry("docker", << Str("run"), Str("z") >>, "none")

OtherTool == { <<"otherTool", 1>> }

ObjDoc(servers, other) == JsVal("obj", servers, other)

\* documents the config file may hold before the first call
InitDocs ==
    {NullVal, PrimVal, ArrVal}
    \cup {ObjDoc(sv, OtherTool) :
            sv \in {NoServers, Servers("falsy", {}), Servers("prim", {}), Servers("arr", {}),
                    Servers("map", {}), Servers("map", {<<NameA, StaleA>>}),
                    Servers("map", {<<NameZ, ForeignZ>>}),
                    Servers("map", {<<NameA, StaleA>>, <<NameZ, ForeignZ>>})}}
    \cup {ObjDoc(Servers("map", {}), {}), ObjDoc(Servers("map", {<<NameZ, ForeignZ>>}), {})}

InitTexts ==
    {Absent, EmptyText, Garbage}
    \cup {Text("json", "indent2", v) : v \in InitDocs}
    \cup {Text("json", "compact", ObjDoc(Servers("map", {<<NameZ, ForeignZ>>}), OtherTool))}

NodeDir == Dir({PackageJson}, FALSE, <<>>, <<>>)
PyServerDir == Dir({ServerPy, RequirementsTxt}, FALSE, <<>>, <<>>)
PyModuleDir == Dir({PyprojectToml}, FALSE, <<>>, <<>>)
MainPyDir == Dir({MainPy}, FALSE, <<>>, <<>>)
MavenBuiltDir == Dir({PomXml, TargetDir}, FALSE, Readdir({ClassesDir, PlainJar, FatJar}), <<>>)
MavenNoJarDir == Dir({PomXml, TargetDir}, FALSE, <<ClassesDir>>, <<>>)
MavenUnbuiltDir == Dir({PomXml}, FALSE, <<>>, <<>>)
GradleBuiltDir == Dir({BuildGradle, BuildDir}, TRUE, <<>>, <<PlainJar>>)
BothOutputsDir == Dir({TargetDir, BuildDir}, TRUE, <<ClassesDir>>, <<PlainJar>>)

\* a regular file named target beside a build/libs with an archive, and a
\* regular file at build/libs
TargetFileDir ==
    [Dir({PomXml, TargetDir, BuildDir}, TRUE, <<>>, <<PlainJar>>) EXCEPT !.notDirs = {TargetDir}]
LibsFileDir ==
    [Dir({BuildGradle, BuildDir}, TRUE, <<>>, <<>>) EXCEPT !.notDirs = {LibsDir}]

\* what the directory at PathA may hold before the first call
InitDirs ==
    {NoDir, EmptyDir, NodeDir, PyServerDir, PyModuleDir, MainPyDir, MavenBuiltDir,
     MavenNoJarDir, MavenUnbuiltDir, GradleBuiltDir, BothOutputsDir, TargetFileDir,
     LibsFileDir}

TypeOK ==
    /\ DOMAIN proj = ProjPaths
    /\ DOMAIN cfgFile = CfgPaths
    /\ \A f \in CfgPaths : cfgFile[f].k # "absent" => cfgDir[f]
    /\ ncalls \in 0..MaxCalls
    /\ faulty \in BOOLEAN

\* the file system before the first call: directory d at PathA, the other
\* two projects present or not, text t in the default config file
StartState(d, others, t) ==
    /\ proj = [q \in ProjPaths |->
                 IF q = PathA THEN d
                 ELSE IF ~others THEN NoDir
                 ELSE IF q = PathXY THEN NodeDir ELSE PyModuleDir]
    /\ cfgFile = [f \in CfgPaths |-> IF f = getDefaultClaudeConfigPath THEN t ELSE Absent]
    /\ cfgDir = [f \in CfgPaths |-> f = getDefaultClaudeConfigPath /\ t.k # "absent"]
    /\ call = [p \in Procs |-> IdleCall]
    /\ prev = NoSummary
    /\ ncalls = 0

\* a file system that answers every call
InitWith(d, others, t) == StartState(d, others, t) /\ faulty = FALSE

InstallStep(p) ==
    \/ InstallAccess(p) \/ InstallReaddir(p) \/ InstallProbeTarget(p) \/ InstallProbeLibs(p)
    \/ UpdateAccess(p) \/ UpdateRead(p) \/ UpdateMkdir(p)
    \/ LocateServerPy(p) \/ LocateTarget(p) \/ LocateLibs(p) \/ ScanTarget(p) \/ ScanLibs(p)
    \/ WriteMkdir(p) \/ WriteOpen(p) \/ WriteData(p)

BuildStep(p) ==
    \/ BuildAccess(p) \/ BuildReaddir(p) \/ BuildNpmInstall(p) \/ BuildNpmRunBuild(p)
    \/ BuildVenvExists(p) \/ BuildUvVenv(p) \/ BuildPythonVenv(p)
    \/ BuildHasRequirements(p) \/ BuildHasPyproject(p) \/ BuildUvPip(p) \/ BuildPip(p)
    \/ BuildHasPom(p) \/ BuildHasGradle(p) \/ BuildMvn(p) \/ BuildGradlew(p)

CreateStep(p) ==
    \/ CreateAccess(p) \/ CreateMkdir(p)
    \/ CreateNpmInit(p) \/ CreateNpmInstall(p) \/ CreateNpmInstallDev(p)
    \/ CreateTsConfig(p) \/ CreateReadPackage(p) \/ CreateWritePackage(p)
    \/ CreateWritePackageData(p) \/ CreateSrcDir(p)
    \/ CreateIndexTs(p) \/ CreateTsReadme(p)
    \/ CreateUvVenv(p) \/ CreatePythonVenv(p) \/ CreateRequirements(p)
    \/ CreateUvPip(p) \/ CreatePip(p) \/ CreateServerPy(p) \/ CreatePyReadme(p)
    \/ CreateJavaDir(p) \/ CreateJavaServer(p) \/ CreatePom(p) \/ CreateJavaReadme(p)

StartAny(p) == StartCreate(p) \/ StartBuild(p) \/ StartInstall(p)

Step(p) == InstallStep(p) \/ BuildStep(p) \/ CreateStep(p) \/ Return(p)

(* Calls one after another, up to MaxCalls of them. *)

SeqDirs == {NoDir, EmptyDir, NodeDir, PyServerDir, MavenBuiltDir, GradleBuiltDir}

SeqTexts ==
    {Absent, Garbage,
     Text("json", "indent2", ArrVal),
     Text("json", "indent2", ObjDoc(NoServers, OtherTool)),
     Text("json", "compact",
          ObjDoc(Servers("map", {<<NameA, StaleA>>, <<NameZ, ForeignZ>>}), OtherTool))}

Init == \E d \in SeqDirs, others \in BOOLEAN, t \in SeqTexts : InitWith(d, others, t)

Next == \E p \in SeqProcs : (ncalls < MaxCalls /\ StartAny(p)) \/ Step(p)

Spec == Init /\ [][Next]_vars

(* One call, to any handler, from any directory and any config file. *)

TopMarkers ==
    {PackageJson, ServerPy, MainPy, RequirementsTxt, PyprojectToml, PomXml, BuildGradle,
     TargetDir}

\* listings of target/: classes only; the bundled archive before the bare
\* one; the bare archive before a bundled one of another name
TargetListings ==
    { Readdir({ClassesDir}), Readdir({FatJar, PlainJar}), Readdir({PlainJar, LibFatJar}) }

\* listings of build/libs/: empty, and the same two pairs of archives
LibsListings == { Readdir({}), Readdir({FatJar, PlainJar}), Readdir({PlainJar, LibFatJar}) }

\* every combination of the markers the detectors look at
AnyDirs ==
    {Dir(S \cup (IF hasLibs THEN {BuildDir} ELSE {}), hasLibs, t, l) :
        S \in SUBSET TopMarkers, hasLibs \in BOOLEAN,
        t \in TargetListings, l \in LibsListings}

WellFormedDir(d) ==
    /\ (TargetDir \notin d.files => d.target = <<ClassesDir>>)
    /\ (~d.hasLibs => d.libs = <<>>)

\* python projects at x-y, a name with a separator
InitDashed(d, t) ==
    /\ proj = [q \in ProjPaths |-> IF q = PathXY THEN d ELSE NoDir]
    /\ cfgFile = [f \in CfgPaths |-> IF f = getDefaultClaudeConfigPath THEN t ELSE Absent]
    /\ cfgDir = [f \in CfgPaths |-> f = getDefaultClaudeConfigPath /\ t.k # "absent"]
    /\ call = [p \in Procs |-> IdleCall]
    /\ prev = NoSummary
    /\ ncalls = 0
    /\ faulty = FALSE

InitCall ==
    \/ \E d \in InitDirs, others \in BOOLEAN, t \in InitTexts : InitWith(d, others, t)
    \/ \E d \in {PyServerDir, PyModuleDir, MainPyDir}, t \in InitTexts : InitDashed(d, t)
    \/ \E d \in AnyDirs, t \in {Absent, Text("json", "indent2", ObjDoc(NoServers, OtherTool))} :
          WellFormedDir(d) /\ InitWith(d, FALSE, t)

\* the handlers src/index.ts registers for install-server and build-server
StartMono(p) == StartMonoInstall(p) \/ StartMonoBuild(p)

MonoStep(p) == MonoInstallStep(p) \/ MonoBuildStep(p)

NextCall ==
    \E p \in SeqProcs :
        \/ ncalls = 0 /\ (StartAny(p) \/ StartMono(p))
        \/ Step(p) \/ MonoStep(p)

SpecCall == InitCall /\ [][NextCall]_vars

(* One call on a file system whose calls may fail for reasons outside the
   state (EACCES, EIO, ENOSPC): faulty holds, so that fs.access may reject
   for what is there (Access), and the actions below let the other awaited
   calls reject.  The specifications above take a healthy file system, where
   a call fails only when the file or directory is missing. *)

\* the awaits of install-server whose rejection reaches the catch of the
\* handler: readdir of the project, of target/ and of build/libs, and the
\* mkdir and writeFile of the save; for the handler of src/index.ts, the
\* readdir of the project and of the output directory and the writeFile
InstallThrowSteps ==
    {"i_readdir", "l_scanTarget", "l_scanLibs", "w_mkdir", "w_open", "w_write",
     "mi_readdir", "ml_scan", "mw_open", "mw_write"}

\* what a writeFile that rejects leaves in a file holding text: the open
\* rejected and the file is as it was, or the write did, after none or a
\* part of the text, which is not JSON
PartlyWritten(pc, text) == IF pc \in {"w_write", "mw_write"} THEN {text, Garbage} ELSE {text}

InstallFsThrows(p) ==
    /\ call[p].op \in {"install", "installMono"} /\ call[p].pc \in InstallThrowSteps
    /\ call' = [call EXCEPT ![p] = Failed(Rejected(call[p]), "IoError")]
    /\ \E text \in PartlyWritten(call[p].pc, FileAt(call[p].cfgp)) :
          cfgFile' = IF call[p].cfgp \in CfgPaths
                     THEN [cfgFile EXCEPT ![call[p].cfgp] = text]
                     ELSE cfgFile
    /\ UNCHANGED <<faulty, proj, cfgDir, prev, ncalls>>

\* readJsonFile rejects with a read error: the inner catch of
\* updateClaudeConfig logs it and the default config is kept
UpdateReadFails(p) ==
    /\ call[p].pc = "u_read"
    /\ call' = [call EXCEPT ![p] =
                  Configure([Rejected(call[p]) EXCEPT !.config = DefaultConfig])]
    /\ UNCHANGED <<faulty, proj, cfgFile, cfgDir, prev, ncalls>>

\* fs.mkdir of the config directory rejects: the inner catch logs it
UpdateMkdirFails(p) ==
    /\ call[p].pc = "u_mkdir"
    /\ call' = [call EXCEPT ![p] = Configure(Rejected(call[p]))]
    /\ UNCHANGED <<faulty, proj, cfgFile, cfgDir, prev, ncalls>>

\* const files = await fs.readdir(fullPath) of build-server rejects, in
\* either handler
BuildFsThrows(p) ==
    /\ call[p].op \in {"build", "buildMono"} /\ call[p].pc \in {"b_readdir", "mb_readdir"}
    /\ call' = [call EXCEPT ![p] = Failed(Rejected(call[p]), "IoError")]
    /\ UNCHANGED <<faulty, proj, cfgFile, cfgDir, prev, ncalls>>

\* the awaits of create-server whose rejection reaches the catch of the
\* handler: ensureDir or fs.mkdir, fs.writeFile and fs.readFile, in either
\* handler
CreateThrowSteps ==
    {"c_mkdir", "s_tsconfig", "s_readPackage", "s_writePackage", "s_packageData", "s_srcDir",
     "s_indexTs", "s_tsReadme", "s_requirements", "s_serverPy", "s_pyReadme", "s_javaDir",
     "s_javaServer", "s_pom", "s_javaReadme",
     "m_mkdir", "m_tsconfig", "m_readPackage", "m_writePackage", "m_packageData", "m_srcDir",
     "m_indexTs", "m_serverPy", "m_requirements", "m_javaDir", "m_javaServer", "m_pom"}

\* the top-level entry the fs.writeFile, fs.mkdir or ensureDir awaited at a
\* step creates
Written(pc) ==
    IF pc \in {"s_tsconfig", "m_tsconfig"} THEN {TsConfigJson}
    ELSE IF pc \in {"s_srcDir", "s_javaDir", "m_srcDir", "m_javaDir"} THEN {SrcDir}
    ELSE IF pc \in {"s_tsReadme", "s_pyReadme", "s_javaReadme"} THEN {ReadmeMd}
    ELSE IF pc \in {"s_requirements", "m_requirements"} THEN {RequirementsTxt}
    ELSE IF pc \in {"s_serverPy", "m_serverPy"} THEN {ServerPy}
    ELSE IF pc \in {"s_pom", "m_pom"} THEN {PomXml}
    ELSE {}

\* one of them rejects.  A writeFile that fails after its open leaves the
\* file it created, empty or with a part of its text, and a mkdir the
\* directories it made; a write to package.json that fails leaves it
\* truncated
CreateFsThrows(p) ==
    /\ call[p].op \in {"create", "createMono"} /\ call[p].pc \in CreateThrowSteps
    /\ call' = [call EXCEPT ![p] = Failed(Rejected(call[p]), "IoError")]
    /\ \E left \in {{}, Written(call[p].pc)} :
          proj' = [proj EXCEPT ![call[p].dir] = AddFiles(@, left)]
    /\ UNCHANGED <<faulty, cfgFile, cfgDir, prev, ncalls>>

FaultStep(p) ==
    \/ InstallFsThrows(p) \/ UpdateReadFails(p) \/ UpdateMkdirFails(p)
    \/ BuildFsThrows(p) \/ CreateFsThrows(p)

InitFault ==
    \E d \in SeqDirs, others \in BOOLEAN, t \in SeqTexts :
        StartState(d, others, t) /\ faulty = TRUE

NextFault ==
    \E p \in SeqProcs :
        \/ ncalls = 0 /\ (StartAny(p) \/ StartMono(p) \/ StartMonoCreate(p))
        \/ Step(p) \/ MonoStep(p) \/ MonoCreateStep(p) \/ FaultStep(p)

SpecFault == InitFault /\ [][NextFault]_vars

(* One create-server call, to either of the two handlers the repository
   registers under that name. *)

NextCreate ==
    \E p \in SeqProcs :
        \/ ncalls = 0 /\ (StartCreate(p) \/ StartMonoCreate(p))
        \/ CreateStep(p) \/ MonoCreateStep(p) \/ Return(p)

SpecCreate == Init /\ [][NextCreate]_vars

(* One install-server call, given its paths in every form. *)

Dot == <<".">>
DotDot == <<"..">>

\* directories: a, ~/a, x-y, /work/a, ./a, ../work/a, b/../a, ~/../u/a, and
\* two that do not exist, q and ~/q
PathDirInputs ==
    DirInputs \cup
    { InPath("abs", PathA), InPath("rel", <<Dot, NameA>>),
      InPath("rel", <<DotDot, <<"work">>, NameA>>),
      InPath("rel", << <<"b">>, DotDot, NameA>>),
      InPath("tilde", <<DotDot, <<"u">>, NameA>>),
      InPath("rel", << <<"q">> >>), InPath("tilde", << <<"q">> >>) }

\* config paths: none, the empty string, ~/cfg/mcp.json,
\* /home/u/cfg/mcp.json, ../home/u/cfg/mcp.json
PathCfgInputs ==
    CfgInputs \cup
    { [given |-> TRUE, path |-> InPath("empty", <<>>)],
      [given |-> TRUE, path |-> InPath("abs", Join(HomeDir, << <<"cfg">>, <<"mcp", ".json">> >>))],
      [given |-> TRUE,
       path |-> InPath("rel", <<DotDot>> \o Join(HomeDir, << <<"cfg">>, <<"mcp", ".json">> >>))] }

NextPath ==
    \E p \in SeqProcs :
        \/ ncalls = 0 /\ StartInstallWith(p, PathDirInputs, PathCfgInputs)
        \/ InstallStep(p) \/ Return(p)

SpecPath == Init /\ [][NextPath]_vars

(* Calls that the transport dispatches while another is still in flight. *)

OverlapTexts ==
    {Absent,
     Text("json", "indent2",
          ObjDoc(Servers("map", {<<NameA, StaleA>>, <<NameZ, ForeignZ>>}), OtherTool))}

InitOverlap ==
    \E d \in {EmptyDir, NodeDir, PyServerDir, MavenBuiltDir, GradleBuiltDir},
       others \in BOOLEAN, t \in OverlapTexts : InitWith(d, others, t)

NextOverlap == \E p \in Procs : (ncalls < MaxCalls /\ StartAny(p)) \/ Step(p)

SpecOverlap == InitOverlap /\ [][NextOverlap]_vars

(* ============================ properties =============================== *)

\* the config file of call c, now and when the call started
FileNow(c) == cfgFile[c.cfgp]
FileBefore(c) == c.started[c.cfgp]

\* the document a text holds
DocOf(text) == JsonParse(text).val

\* the entries under mcpServers of a text (none when it has no such mapping)
EntriesOf(text) ==
    IF text.k = "json" /\ text.val.t = "obj" /\ text.val.servers.t = "map"
    THEN text.val.servers.m ELSE {}

NamesOf(text) == Keys(EntriesOf(text))

\* the other top-level keys of a text
OtherKeysOf(text) == IF text.k = "json" THEN text.val.other ELSE {}

Without(m, name) == {kv \in m : kv[1] # name}

InstallDone(c) == c.op = "install" /\ c.pc = "done"
InstallOk(c) == InstallDone(c) /\ c.result = "ok"

Corrupt(text) == text.k \in {"empty", "garbage"}

\* C1: if the config file exists but is not valid JSON, install-server
\* returns a failure and the file's content after the call is identical to
\* its content before the call.
C1_CorruptConfigFailsSafe ==
    \A p \in Procs :
        InstallDone(call[p]) /\ Corrupt(FileBefore(call[p]))
            => call[p].result = "err" /\ FileNow(call[p]) = FileBefore(call[p])

\* C2: for a parseable config document and a successful install-server call
\* that registers name n, every top-level key other than mcpServers and
\* every entry under mcpServers whose key differs from n has the same value
\* in the file after the call as before it.
C2_MergePreservesUnrelated ==
    \A p \in Procs :
        InstallOk(call[p]) /\ FileBefore(call[p]).k = "json"
            => /\ FileNow(call[p]).k = "json"
               /\ OtherKeysOf(FileNow(call[p])) = OtherKeysOf(FileBefore(call[p]))
               /\ Without(EntriesOf(FileNow(call[p])), call[p].name)
                    = Without(EntriesOf(FileBefore(call[p])), call[p].name)

\* a successful install of x-y into a document that held a, z and otherTool
C2_Witness ==
    \E p \in Procs :
        /\ InstallOk(call[p]) /\ call[p].name = NameXY
        /\ NamesOf(FileBefore(call[p])) = {NameA, NameZ}
        /\ OtherKeysOf(FileBefore(call[p])) = OtherTool
        /\ NamesOf(FileNow(call[p])) = {NameA, NameZ, NameXY}

\* C3: when two install-server calls for different server names overlap on
\* the same config file, once both have returned success the config file
\* contains the entries of both names.
C3_OverlappingInstallsBothKept ==
    \A p, q \in Procs :
        /\ p # q /\ InstallOk(call[p]) /\ InstallOk(call[q])
        /\ call[p].overlapped /\ call[q].overlapped
        /\ call[p].cfgp = call[q].cfgp /\ call[p].name # call[q].name
        => {call[p].name, call[q].name} \subseteq NamesOf(FileNow(call[p]))

\* C4: while install-server saves the config file, the file holds at every
\* instant either the complete previous document or the complete new one.
C4_SaveIsAtomic ==
    \A p \in Procs :
        call[p].op = "install" /\ call[p].pc \in {"w_mkdir", "w_open", "w_write"}
            => FileNow(call[p]) \in {FileBefore(call[p]), JsonStringify(call[p].config)}

\* C5: across any sequence of create-server, build-server and install-server
\* calls, a server name present under mcpServers in a config file when a call
\* starts is present in every later state of the call and when it returns: no
\* operation removes an entry.
C5_EntriesStayPresent ==
    \A p \in Procs :
        \A f \in CfgPaths : NamesOf(call[p].started[f]) \subseteq NamesOf(cfgFile[f])

\* the same in every state but those of a save between the truncation of the
\* file and the arrival of its text
EntriesKeptOutsideSave ==
    \A p \in Procs :
        call[p].pc # "w_write"
            => \A f \in CfgPaths : NamesOf(call[p].started[f]) \subseteq NamesOf(cfgFile[f])

\* the earlier of two calls
Earlier(c, d) == IF c.no < d.no THEN c ELSE d

\* C6: when two install-server calls that register the same server name
\* overlap on the same config file, after both have returned success the
\* entry under that name is the launch spec of one of the two calls, and
\* all other entries and top-level keys that were in the file before either
\* call are still present.
C6_SameNameLastWriterWins ==
    \A p, q \in Procs :
        /\ p # q /\ InstallOk(call[p]) /\ InstallOk(call[q])
        /\ call[p].overlapped /\ call[q].overlapped
        /\ call[p].cfgp = call[q].cfgp /\ call[p].name = call[q].name
        => LET before == FileBefore(Earlier(call[p], call[q]))
               now == FileNow(call[p])
           IN  /\ \E e \in {call[p].entry, call[q].entry} :
                     <<call[p].name, e>> \in EntriesOf(now)
               /\ Without(EntriesOf(before), call[p].name) \subseteq EntriesOf(now)
               /\ OtherKeysOf(before) \subseteq OtherKeysOf(now)

\* C7: installing a server whose name is already a key under mcpServers
\* replaces that entry with the newly built launch spec and changes nothing
\* else: the set of keys under mcpServers is the same after the call as
\* before it.
C7_OverwriteReplacesOnlyEntry ==
    \A p \in Procs :
        InstallOk(call[p]) /\ call[p].name \in NamesOf(FileBefore(call[p]))
            => /\ NamesOf(FileNow(call[p])) = NamesOf(FileBefore(call[p]))
               /\ <<call[p].name, call[p].entry>> \in EntriesOf(FileNow(call[p]))
               /\ Without(EntriesOf(FileNow(call[p])), call[p].name)
                    = Without(EntriesOf(FileBefore(call[p])), call[p].name)
               /\ OtherKeysOf(FileNow(call[p])) = OtherKeysOf(FileBefore(call[p]))

\* the stale entry of a has been replaced by a node launch spec, beside z
C7_Witness ==
    \E p \in Procs :
        /\ InstallOk(call[p]) /\ call[p].name = NameA
        /\ EntriesOf(FileBefore(call[p])) = {<<NameA, StaleA>>, <<NameZ, ForeignZ>>}
        /\ EntriesOf(FileNow(call[p])) = {<<NameA, NodeEntry(PathA)>>, <<NameZ, ForeignZ>>}

\* C8: when the config file does not exist, a successful install-server call
\* creates it, and its missing parent directories, as a document whose
\* mcpServers mapping has exactly one entry, keyed by the installed server's
\* name, and no other top-level key.
C8_MissingConfigBootstrap ==
    \A p \in Procs :
        InstallOk(call[p]) /\ FileBefore(call[p]).k = "absent"
            => /\ cfgDir[call[p].cfgp]
               /\ FileNow(call[p]).k = "json"
               /\ FileNow(call[p]).val =
                     ObjDoc(Servers("map", {<<call[p].name, call[p].entry>>}), {})
               /\ call[p].entry.command \in {"node", "uv", "python", "java"}

\* the override config file, whose parent directory did not exist, has been
\* created with the one entry
C8_Witness ==
    \E p \in Procs :
        /\ InstallOk(call[p]) /\ FileBefore(call[p]).k = "absent"
        /\ call[p].cfgp = claudeConfigPath(OverrideInput)
        /\ NamesOf(FileNow(call[p])) = {call[p].name}

\* C9: install-server is idempotent: on an unchanged project directory,
\* running install twice in a row with the same arguments leaves the config
\* file in the same state as running it once.
C9_InstallIdempotent ==
    \A p \in Procs :
        /\ InstallDone(call[p]) /\ prev.op = "install"
        /\ prev.dir = call[p].dir /\ prev.cfgp = call[p].cfgp
        => FileNow(call[p]) = prev.after /\ call[p].result = prev.result

\* the second of two identical successful installs has returned, and the
\* file it read already held its entry beside z
C9_Witness ==
    \E p \in Procs :
        /\ InstallOk(call[p]) /\ prev.op = "install" /\ prev.result = "ok"
        /\ prev.dir = call[p].dir /\ prev.cfgp = call[p].cfgp
        /\ <<call[p].name, call[p].entry>> \in EntriesOf(FileBefore(call[p]))
        /\ NameZ \in NamesOf(FileNow(call[p]))

PyMarker(d) ==
    \/ ServerPy \in d.files \/ (\E f \in d.files : EndsWith(f, <<".py">>))
    \/ RequirementsTxt \in d.files \/ PyprojectToml \in d.files

JvmMarker(d) ==
    PomXml \in d.files \/ BuildGradle \in d.files \/ TargetDir \in d.files \/ d.hasLibs

\* install-server has read the listing of an existing directory
PastListing(c) ==
    /\ c.op = "install" /\ c.pc \notin {"i_access", "i_readdir"}
    /\ c.err # "DirectoryNotFound"

\* C10: a directory containing package.json is detected as nodejs by
\* install-server whatever other markers it contains; a directory without
\* package.json that has both a dynamic-script marker and a JVM marker is
\* detected as python.
C10_DetectionPriority ==
    \A p \in Procs :
        PastListing(call[p])
            => LET d == proj[call[p].dir]
               IN  /\ PackageJson \in d.files => call[p].stype = "nodejs"
                   /\ PackageJson \notin d.files /\ PyMarker(d) /\ JvmMarker(d)
                        => call[p].stype = "python"

\* a directory with package.json, python markers and JVM markers has been
\* installed as a node server
C10_Witness ==
    \E p \in Procs :
        /\ InstallOk(call[p]) /\ call[p].stype = "nodejs"
        /\ {PackageJson, ServerPy, MainPy, RequirementsTxt, PyprojectToml, PomXml,
            BuildGradle, TargetDir} \subseteq proj[call[p].dir].files
        /\ proj[call[p].dir].hasLibs

\* the three markers the specification gives for a dynamic-script project
ManifestMarker(d) ==
    RequirementsTxt \in d.files \/ PyprojectToml \in d.files \/ ServerPy \in d.files

\* C11: for a directory without package.json, install-server detects python
\* exactly when the directory holds requirements.txt, pyproject.toml or
\* server.py; a directory with none of the three is never detected as python.
C11_PythonOnlyOnManifestMarkers ==
    \A p \in Procs :
        PastListing(call[p]) /\ PackageJson \notin proj[call[p].dir].files
            => (call[p].stype = "python" <=> ManifestMarker(proj[call[p].dir]))

\* no rule of the tool's detector matches the directory
NoRuleMatches(op, d) ==
    /\ PackageJson \notin d.files
    /\ IF op = "install" THEN ~PyMarker(d) /\ ~JvmMarker(d)
       ELSE ~ManifestMarker(d) /\ PomXml \notin d.files /\ BuildGradle \notin d.files

\* C12: when no detection rule matches an existing directory, install-server
\* and build-server return the failure UnrecognizedProjectKind, having run no
\* command and with every config file as the call found it.
C12_UnrecognizedKindFails ==
    \A p \in Procs :
        /\ call[p].pc = "done" /\ call[p].op \in {"install", "build"}
        /\ call[p].err # "DirectoryNotFound"
        /\ NoRuleMatches(call[p].op, proj[call[p].dir])
        => /\ call[p].result = "err" /\ call[p].err = "UnrecognizedProjectKind"
           /\ call[p].cmds = <<>>
           /\ cfgFile = call[p].started

\* install-server has refused an existing, empty directory and the config
\* file still holds the entries of a and z
C12_Witness ==
    \E p \in Procs :
        /\ call[p].op = "install" /\ call[p].pc = "done"
        /\ call[p].err = "UnrecognizedProjectKind"
        /\ proj[call[p].dir] = EmptyDir
        /\ NamesOf(FileNow(call[p])) = {NameA, NameZ}

\* the handlers of src/tools and of build-server, which the claims cite
Modular(c) == c.op \in {"create", "build", "install"}

\* C13: each of create-server, build-server and install-server completes by
\* returning a result value: when a file-system call of a call was rejected
\* at any step, the call that has ended has returned a structured failure
\* with a message, and no exception has left the handler.
C13_EveryFailureReported ==
    \A p \in Procs :
        Modular(call[p]) /\ call[p].pc = "done"
            => /\ call[p].result \in {"ok", "err"}
               /\ call[p].rejected # {} => call[p].result = "err" /\ call[p].err # "none"

\* what does hold of every call: in flight it has a next step, and ended it
\* has returned success or a structured failure; no exception leaves a
\* handler
ResultIsReturned ==
    \A p \in Procs :
        /\ InFlight(call[p])
              => /\ call[p].result = "none"
                 /\ ENABLED (Step(p) \/ MonoStep(p) \/ MonoCreateStep(p) \/ FaultStep(p))
        /\ call[p].pc = "done"
             => \/ call[p].result = "ok" /\ call[p].err = "none"
                \/ call[p].result = "err" /\ call[p].err # "none"

CreateCall(c) == c.op \in {"create", "createMono"} /\ c.pc # "idle"

\* C14: create-server fails with AlreadyExists whenever the target path
\* exists when it is called: no command is run, the contents of the target
\* are as the call found them, and the call ends with that failure.
C14_CreateRefusesExistingTarget ==
    \A p \in Procs :
        CreateCall(call[p]) /\ call[p].found.exists
            => /\ call[p].cmds = <<>>
               /\ proj[call[p].dir] = call[p].found
               /\ call[p].pc = "done"
                    => call[p].result = "err" /\ call[p].err = "AlreadyExists"

\* C15: create-server does not roll back.  When the scaffolder fails after
\* the target directory was created, the call returns a failure and the
\* directory is still there with what was written so far (for the python
\* scaffolder stopped at pip: .venv and requirements.txt); a create-server
\* call for the same target that follows fails with AlreadyExists.
C15_CreateDoesNotRollBack ==
    \A p \in Procs :
        /\ call[p].op = "create" /\ call[p].pc = "done" /\ call[p].err = "ScaffoldFailed"
            => /\ call[p].result = "err"
               /\ ~call[p].found.exists /\ proj[call[p].dir].exists
               /\ call[p].lang = "python" /\ Len(call[p].cmds) > 2
                    => {VenvDir, RequirementsTxt} \subseteq proj[call[p].dir].files
        /\ call[p].op = "create" /\ call[p].pc = "done"
           /\ prev.op = "create" /\ prev.err = "ScaffoldFailed" /\ prev.dir = call[p].dir
            => call[p].result = "err" /\ call[p].err = "AlreadyExists"

\* the python scaffolder failed at pip, and the second create-server call for
\* the same target has been refused
C15_Witness ==
    \E p \in Procs :
        /\ call[p].op = "create" /\ call[p].pc = "done" /\ call[p].err = "AlreadyExists"
        /\ prev.op = "create" /\ prev.err = "ScaffoldFailed" /\ prev.dir = call[p].dir
        /\ proj[call[p].dir].files = {VenvDir, RequirementsTxt}

HasJar(listing) == \E i \in 1..Len(listing) : EndsWith(listing[i], <<".jar">>)

\* no archive can be located in directory d: neither output directory
\* exists, or the one that is scanned holds no .jar
NoArchive(d) ==
    IF TargetDir \in d.files THEN Listable(d, TargetDir) /\ ~HasJar(d.target)
    ELSE IF d.hasLibs THEN Listable(d, LibsDir) /\ ~HasJar(d.libs)
    ELSE TRUE

\* the place install-server would scan is a regular file
ScansFile(d) ==
    IF TargetDir \in d.files THEN TargetDir \in d.notDirs
    ELSE d.hasLibs /\ LibsDir \in d.notDirs

\* C16: for a project detected as java, install-server fails with
\* ArtifactNotFound, the config file unwritten, whenever no archive can be
\* located: neither target/ nor build/libs exists, or the scanned output
\* directory exists and holds no file ending in .jar.  Where the place to
\* scan is a regular file, the install fails as well, with the error of the
\* listing, and the config file is unwritten.
C16_NoArchiveFails ==
    \A p \in Procs :
        call[p].op = "install" /\ call[p].pc = "done" /\ call[p].stype = "java"
            => /\ NoArchive(proj[call[p].dir])
                    => /\ call[p].result = "err" /\ call[p].err = "ArtifactNotFound"
                       /\ cfgFile = call[p].started
               /\ ScansFile(proj[call[p].dir])
                    => /\ call[p].result = "err" /\ call[p].err = "IoError"
                       /\ cfgFile = call[p].started

\* install-server has refused a maven project whose target/ holds classes
\* only, and the config file still has the entries of a and z
C16_Witness ==
    \E p \in Procs :
        /\ call[p].op = "install" /\ call[p].pc = "done"
        /\ call[p].err = "ArtifactNotFound"
        /\ proj[call[p].dir] = MavenNoJarDir
        /\ NamesOf(FileNow(call[p])) = {NameA, NameZ}

\* the project of call c has both output directories
BothOutputs(c) == TargetDir \in proj[c.dir].files /\ proj[c.dir].hasLibs

\* C17: for a java project where both target/ and build/libs exist,
\* install-server scans target/ only: build/libs is never listed, a
\* registered archive is a file of target/, and when target/ holds no .jar
\* (or cannot be listed, being a regular file) the install fails even if
\* build/libs holds one.  Both install handlers of the repository are held
\* to it.
C17_TargetScannedFirst ==
    \A p \in Procs :
        call[p].op \in {"install", "installMono"} /\ call[p].stype = "java"
        /\ BothOutputs(call[p])
            => /\ call[p].pc # "l_scanLibs"
               /\ call[p].pc = "ml_scan" => call[p].hasTarget
               /\ call[p].entry.command = "java"
                    => Dirname(call[p].entry.args[2]) = Join(call[p].dir, <<TargetDir>>)
               /\ call[p].pc = "done" /\ ~HasJar(proj[call[p].dir].target)
                    => /\ call[p].result = "err"
                       /\ call[p].err = IF Listable(proj[call[p].dir], TargetDir)
                                        THEN "ArtifactNotFound" ELSE "IoError"

\* the install has failed on a project whose target/ has no archive while
\* its build/libs has two
C17_Witness ==
    \E p \in Procs :
        /\ call[p].op = "install" /\ call[p].pc = "done" /\ BothOutputs(call[p])
        /\ call[p].err = "ArtifactNotFound"
        /\ proj[call[p].dir].target = <<ClassesDir>>
        /\ proj[call[p].dir].libs = <<FatJar, PlainJar>>

\* the output directory install-server scans, and its listing
ScannedDir(d) == IF TargetDir \in d.files THEN <<TargetDir>> ELSE <<BuildDir, LibsDir>>
ScannedListing(d) == IF TargetDir \in d.files THEN d.target ELSE d.libs

InListing(file, listing) == \E i \in 1..Len(listing) : listing[i] = file

\* C18: for a java project, when the scanned output directory (target/ or
\* build/libs) holds both an archive ending in -jar-with-dependencies.jar and
\* a bare .jar, a successful install registers the former, whatever the order
\* of the listing, as {command: "java", args: ["-jar", <absolute path>]}.
C18_BundledArchivePreferred ==
    \A p \in Procs :
        /\ InstallOk(call[p]) /\ call[p].stype = "java"
        /\ InListing(PlainJar, ScannedListing(proj[call[p].dir]))
        => \A fat \in {FatJar, LibFatJar} :
              InListing(fat, ScannedListing(proj[call[p].dir]))
                  => call[p].entry =
                        Entry("java",
                              << Str("-jar"),
                                 Join(call[p].dir, ScannedDir(proj[call[p].dir]) \o <<fat>>) >>,
                              "none")

\* C19: for a project detected as python, a successful install registers
\* {uv, [--directory, <dir>, run, server.py]} when server.py is at the
\* project root, and otherwise {python, [-m, <module>]} with <module> the
\* server name, every '-' replaced by '_', and that entry is in the file when
\* the document is an object with an mcpServers mapping; the entry {python,
\* [<dir>/server.py]} of the catch branch is never built nor written.
C19_PythonLaunchSpec ==
    \A p \in Procs :
        /\ InstallOk(call[p]) /\ call[p].stype = "python"
            => LET name == Basename(call[p].dir)
                   module == [i \in 1..Len(name) |-> IF name[i] = "-" THEN "_" ELSE name[i]]
                   expected ==
                       IF ServerPy \in proj[call[p].dir].files
                       THEN [command |-> "uv",
                             args |-> << Str("--directory"), call[p].dir, Str("run"),
                                         << <<"server", ".py">> >> >>,
                             extra |-> "none"]
                       ELSE [command |-> "python",
                             args |-> << Str("-m"), <<module>> >>,
                             extra |-> "none"]
               IN  /\ call[p].entry = expected
                   /\ call[p].config.t = "obj" /\ call[p].config.servers.t = "map"
                        => <<name, expected>> \in EntriesOf(FileNow(call[p]))
        /\ call[p].op = "install"
            => /\ call[p].entry # PythonFallbackEntry(call[p].dir)
               /\ \A kv \in EntriesOf(FileNow(call[p])) :
                     kv[2] # PythonFallbackEntry(call[p].dir)

\* the project x-y, without server.py, has been registered as python -m x_y
C19_Witness ==
    \E p \in Procs :
        /\ InstallOk(call[p]) /\ call[p].name = NameXY
        /\ ServerPy \notin proj[call[p].dir].files
        /\ call[p].entry.args = << Str("-m"), << <<"x", "_", "y">> >> >>

\* C20: for a directory containing package.json the artifact is not
\* verified: install-server never fails with ArtifactNotFound, the only
\* failure left is the TypeError of a config document that cannot take the
\* entry, and a successful call has registered {node, [<dir>/build/index.js]}
\* whether or not build/ exists.
C20_NodeArtifactNotVerified ==
    \A p \in Procs :
        /\ call[p].op = "install" /\ call[p].pc = "done"
        /\ PackageJson \in proj[call[p].dir].files
        => /\ call[p].err \in {"none", "TypeError"}
           /\ (call[p].started[call[p].cfgp].k # "json") => call[p].result = "ok"
           /\ call[p].result = "ok"
                => call[p].entry =
                      [command |-> "node",
                       args |-> << call[p].dir \o << <<"build">>, <<"index", ".js">> >> >>,
                       extra |-> "none"]

\* a project with package.json and no build directory has been installed
C20_Witness ==
    \E p \in Procs :
        /\ InstallOk(call[p]) /\ call[p].entry.command = "node"
        /\ proj[call[p].dir].files = {PackageJson}
        /\ <<call[p].name, call[p].entry>> \in EntriesOf(FileNow(call[p]))

\* a path as a caller writes it has no "." or ".." segment
Plain(comps) == \A i \in 1..Len(comps) : comps[i] \notin {Dot, DotDot}

\* what the rule gives for an input without "." and ".." segments
Resolved(inputPath) ==
    IF inputPath.kind = "tilde" THEN HomeDir \o inputPath.comps
    ELSE IF inputPath.kind = "abs" THEN inputPath.comps
    ELSE Cwd \o inputPath.comps

\* C21: resolvePath gives an absolute path: the home directory joined with
\* what follows a leading '~', and otherwise the input resolved against the
\* working directory.  install-server uses the rule for the directory and
\* for a configPath that is given and not empty.
C21_PathResolution ==
    \A p \in Procs :
        call[p].op = "install"
            => LET in == call[p].input
               IN  /\ Plain(call[p].dir) /\ Plain(call[p].cfgp)
                   /\ Plain(in.dir.comps) => call[p].dir = Resolved(in.dir)
                   /\ in.dir.kind = "tilde" /\ Len(in.dir.comps) > 0 /\ Head(in.dir.comps) # DotDot
                        => SubSeq(call[p].dir, 1, Len(HomeDir)) = HomeDir
                   /\ in.cfg.given /\ in.cfg.path.kind # "empty" /\ Plain(in.cfg.path.comps)
                        => call[p].cfgp = Resolved(in.cfg.path)
                   /\ ~in.cfg.given => call[p].cfgp = getDefaultClaudeConfigPath

\* the directory ~/a with the config path ~/cfg/mcp.json has been installed
\* at /home/u/a in /home/u/cfg/mcp.json
C21_Witness ==
    \E p \in Procs :
        /\ InstallOk(call[p])
        /\ call[p].input.dir = InPath("tilde", <<NameA>>)
        /\ call[p].input.cfg = OverrideInput
        /\ call[p].dir = << <<"home">>, <<"u">>, <<"a">> >>
        /\ call[p].cfgp = << <<"home">>, <<"u">>, <<"cfg">>, <<"mcp", ".json">> >>
        /\ NamesOf(FileNow(call[p])) = {NameA}

\* C22: install-server does not touch the config store before detection and
\* artifact location have succeeded: a call that ends with ArtifactNotFound
\* has changed nothing, the config files are as it found them and the parent
\* directory of a missing config file has not been created.  (Before the one
\* call of SpecCall a config directory exists exactly when its file does.)
C22_ConfigStoreAfterLocate ==
    \A p \in Procs :
        call[p].op = "install" /\ call[p].pc = "done" /\ call[p].err = "ArtifactNotFound"
            => /\ cfgFile = call[p].started
               /\ \A f \in CfgPaths : cfgDir[f] = (call[p].started[f].k # "absent")

\* C23: build-server and install-server choose the same project kind for
\* every directory, and one reports UnrecognizedProjectKind exactly when the
\* other does.  Each call is compared, on the directory as it listed it,
\* with the detector of the other tool.
C23_SameDetector ==
    \A p \in Procs :
        LET c == call[p]
        IN  /\ c.op = "install" /\ c.stype # "none"
                => BuildKind(proj[c.dir].files) = c.stype
            /\ c.op = "install" /\ c.err = "UnrecognizedProjectKind"
                => BuildKind(proj[c.dir].files) = "none"
            /\ c.op = "build" /\ c.stype # "none" /\ c.cmds = <<>>
                => InstallKind(proj[c.dir]) = c.stype
            /\ c.op = "build" /\ c.err = "UnrecognizedProjectKind"
                => InstallKind(proj[c.dir]) = "none"


\* the candidate commands of the two external steps of a python build
VenvCandidates == << <<"uv", "venv">>, <<"python", "-m venv .venv">> >>
DepCandidates(pip) == << <<"uv pip", pip>>, <<".venv/bin/pip", pip>> >>

\* a step that has tried its first n candidates in order, every one before
\* the last failing and the last ending with ok
CandidateRun(cands, n, ok) == [i \in 1..n |-> <<cands[i], (i = n) /\ ok>>]
StepRuns(cands) == { CandidateRun(cands, n, ok) : n \in 1..Len(cands), ok \in BOOLEAN }

LastOk(run) == run # <<>> /\ run[Len(run)][2]
Exhausted(run, cands) == Len(run) = Len(cands) /\ ~LastOk(run)
Finished(run, cands) == LastOk(run) \/ Exhausted(run, cands)

\* the commands a call has run, each with its outcome
Tried(c) == [i \in 1..Len(c.cmds) |-> <<c.cmds[i], c.outs[i]>>]

PythonBuild(c) == c.op = "build" /\ c.stype = "python"

\* C24: the external steps of a python build are ordered candidate lists, uv
\* first and the python / pip fallback second.  What the call has run is the
\* run of the venv step (empty when .venv was there) followed by the run of
\* the dependency step; in a run each candidate is tried only after every
\* earlier one failed and none after one succeeded; the dependency step
\* starts only after the venv step succeeded; and the call ends with
\* BuildToolFailed exactly when a step has exhausted its candidates, with
\* success exactly when the dependency step has a successful candidate.
C24_CandidateChain ==
    \A p \in Procs :
        LET c == call[p]
        IN  PythonBuild(c) =>
              /\ Len(c.outs) = Len(c.cmds)
              /\ c.pc = "b_uvVenv" => VenvDir \notin proj[c.dir].files
              /\ \E v \in {<<>>} \cup StepRuns(VenvCandidates),
                    d \in {<<>>} \cup StepRuns(DepCandidates(c.pip)) :
                    /\ Tried(c) = v \o d
                    /\ d # <<>> => v = <<>> \/ LastOk(v)
                    /\ v = <<>> /\ c.pc \notin {"b_venv", "b_uvVenv"}
                          => VenvDir \in proj[c.dir].files
                    /\ c.pc = "done" =>
                          /\ (c.result = "err" /\ c.err = "BuildToolFailed")
                                <=> (Exhausted(v, VenvCandidates)
                                        \/ Exhausted(d, DepCandidates(c.pip)))
                          /\ c.result = "ok" <=> LastOk(d)
                          /\ c.result \in {"ok", "err"}
                    /\ c.pc # "done" =>
                          /\ ~Exhausted(v, VenvCandidates)
                          /\ ~Finished(d, DepCandidates(c.pip))

\* a python build in a directory without .venv has ended with success after
\* uv failed at both steps and both fallbacks succeeded
C24_Witness ==
    \E p \in Procs :
        /\ PythonBuild(call[p]) /\ call[p].pc = "done" /\ call[p].result = "ok"
        /\ call[p].outs = <<FALSE, TRUE, FALSE, TRUE>>

\* a python build has ended with BuildToolFailed after 'uv pip install' and
\* the pip fallback both failed
C24_WitnessExhausted ==
    \E p \in Procs :
        /\ PythonBuild(call[p]) /\ call[p].pc = "done" /\ call[p].err = "BuildToolFailed"
        /\ Len(call[p].cmds) >= 2
        /\ call[p].cmds[Len(call[p].cmds)][1] = ".venv/bin/pip"


\* C25: an install-server call that returns a failure leaves the content of
\* every config file as the call found it.
C25_FailedInstallKeepsConfig ==
    \A p \in Procs :
        call[p].op = "install" /\ call[p].pc = "done" /\ call[p].result = "err"
            => cfgFile = call[p].started


\* C26: after install-server has returned success for server name n, the
\* config file is valid JSON, its top level is an object with an mcpServers
\* mapping, and that mapping holds n with the launch entry the call built;
\* whatever document the call found in the file.
C26_SuccessRegistersEntry ==
    \A p \in Procs :
        InstallOk(call[p])
            => /\ FileNow(call[p]).k = "json"
               /\ DocOf(FileNow(call[p])).t = "obj"
               /\ DocOf(FileNow(call[p])).servers.t = "map"
               /\ <<Basename(call[p].dir), call[p].entry>> \in EntriesOf(FileNow(call[p]))


\* a create-server call that has passed its existence check
PastExistenceCheck(c) ==
    /\ c.op = "create" /\ c.pc \notin {"idle", "c_access"}
    /\ c.err # "AlreadyExists"

\* C27: of two overlapping create-server calls for the same target path, at
\* most one passes the existence check and goes on to create the directory
\* and run the scaffolder in it.
C27_OneCreateWins ==
    \A p, q \in Procs :
        /\ p # q
        /\ call[p].op = "create" /\ call[q].op = "create"
        /\ call[p].overlapped /\ call[q].overlapped
        /\ call[p].dir = call[q].dir
        => ~(PastExistenceCheck(call[p]) /\ PastExistenceCheck(call[q]))


\* the entries of a text registered under name
EntriesNamed(text, name) == {kv \in EntriesOf(text) : kv[1] = name}

\* the last call was a successful install of another directory with the
\* same final component into the same config file, and it left an entry
\* under that name
SameNameBefore(c) ==
    /\ prev.op = "install" /\ prev.result = "ok"
    /\ prev.dir # c.dir /\ prev.dir[Len(prev.dir)] = c.dir[Len(c.dir)]
    /\ prev.cfgp = c.cfgp
    /\ EntriesNamed(prev.after, prev.name) # {}

\* C28: the name install-server registers is the final component of the
\* resolved project directory, whatever the kind of the project, the input
\* form and the config file; so when a directory is installed after another
\* directory with the same final component, the file holds one entry under
\* that name, the launch entry of the later install.
C28_KeyIsBasename ==
    \A p \in Procs :
        LET c == call[p]
        IN  /\ c.op = "install" /\ c.stype # "none"
                => c.name = c.dir[Len(c.dir)]
            /\ InstallOk(c)
                => \A kv \in EntriesOf(FileNow(c)) \ EntriesOf(FileBefore(c)) :
                        kv[1] = c.dir[Len(c.dir)]
            /\ InstallOk(c) /\ SameNameBefore(c)
                => /\ prev.name = c.name
                   /\ EntriesNamed(FileNow(c), c.name) = {<<c.name, c.entry>>}

\* /work/a has been installed after ~/a: the entry under a that the first
\* install left has been replaced by the entry of the second
C28_Witness ==
    \E p \in Procs :
        /\ InstallOk(call[p]) /\ SameNameBefore(call[p])
        /\ call[p].dir = PathA /\ prev.dir = PathHomeA
        /\ EntriesNamed(prev.after, NameA) # {<<NameA, call[p].entry>>}
        /\ EntriesNamed(FileNow(call[p]), NameA) = {<<NameA, call[p].entry>>}

====
